---- MODULE Spec2Model ----
(***************************************************************************)
(* A model of github-db's ingestion scheduler: the rate budgeter           *)
(* (src/src/requests/limits.rs), the persistent request queue              *)
(* (src/src/lib.rs, src/src/requests/add.rs), the request handlers         *)
(* (src/src/requests/handle.rs) and the entity upserter                    *)
(* (src/src/database/updates.rs).                                          *)
(*                                                                         *)
(* Token accumulators are f64 in the source.  They are modelled exactly,   *)
(* as integers counting 1/One of a token (One = 36000), which makes every  *)
(* quantity of RequestLimits an integer when time is counted in seconds.   *)
(***************************************************************************)
EXTENDS Integers, Sequences, FiniteSets, TLC

VARIABLES
    \* ---- RequestLimits (limits.rs) ----
    global_limit,      \* RequestLimits.global_limit
    category_limits,   \* RequestLimits.category_limits: category -> [count, time]
    saved_up,          \* RequestLimits.saved_up
    upd,               \* position of a running RequestLimits::update call
    now,               \* the clock (Instant::now / Utc::now), in seconds
    saturated,         \* environment: every next_request call finds a request
    dequeues,          \* history: successful dequeues per category
    ticks,             \* history: number of update calls started
    regular,           \* history: every update call started TickPeriod after the last
    last_tick,         \* history: time of the last update call
    refresh,           \* GithubDb.refresh: the ticks the Interval has delivered
    \* ---- request queue (lib.rs, add.rs) ----
    repos,             \* GithubDb.repos, the configured repositories
    queue,             \* the Request table
    request_sequence_number,  \* GithubDb.request_sequence_number
    tasks,             \* the tasks in flight: spawned handlers, and refresh()
    allocs,            \* history: number of sequence numbers allocated so far
    enqueues,          \* history: number of add_req calls of handlers and refresh()
    epoch,             \* history: number of process starts
    handed_log,        \* history: per category, the rows (their ord) next_request returned, in order
    panicked,          \* an insert hit "duplicate sequence number"
    lost,              \* history: requests in flight at the last crash
    fresh,             \* history: nothing has happened since GithubDb::new returned
    \* ---- entity store (updates.rs) ----
    store,             \* the entity tables
    before,            \* history: the store before the last observation
    last_obs,          \* history: the last observation processed
    last_status,       \* history: the ProcessStatus it returned
    observations,      \* history: number of observations processed
    utc_now,           \* Utc::now, in seconds
    upstream_page,     \* the upstream page a list handler is given, if any
    pass,              \* history: how many times in a row the page has been processed
    statuses,          \* history: the ProcessStatus of each item of the last pass
    upstream,          \* the version of issue 1 upstream has now (its updated_at)
    fetched,           \* per handler task: the snapshot of issue 1 it has fetched
    newest             \* history: the greatest version a handler has committed

vars == <<global_limit, category_limits, saved_up, upd, now, saturated, dequeues,
          ticks, regular, last_tick, refresh,
          repos, queue, request_sequence_number, tasks, allocs, enqueues, epoch,
          handed_log, panicked, lost, fresh,
          store, before, last_obs, last_status, observations,
          utc_now, upstream_page, pass, statuses, upstream, fetched, newest>>

limitVars == <<global_limit, category_limits, saved_up, upd, now, saturated,
               dequeues, ticks, regular, last_tick, refresh>>
queueVars == <<repos, queue, request_sequence_number, tasks, allocs, enqueues, epoch,
               handed_log, panicked, lost, fresh>>
storeVars == <<store, before, last_obs, last_status, observations, utc_now,
               upstream_page, pass, statuses, upstream, fetched, newest>>

snapVars == <<upstream, fetched, newest>>

(***************************************************************************)
(* Bounds of the model.                                                    *)
(***************************************************************************)
MaxTicks == 3          \* update calls in one behaviour
StepsPerHour == 3      \* the clock advances in steps of an hour / StepsPerHour
MaxAdvances == 4       \* the clock stops after MaxAdvances steps
MaxEnqueues == 2       \* add_req calls of handlers and refresh() in one behaviour
MaxObservations == 3   \* items observed in one behaviour
MaxPasses == 4         \* page passes in one behaviour
MaxVersions == 3       \* versions of issue 1 upstream goes through
MaxRuns == 2           \* handler runs in one behaviour
MaxClock == 1          \* seconds Utc::now advances in one behaviour
MaxHandled == 3        \* requests next_request hands out in one behaviour
MaxUpdates == 2        \* update calls in one behaviour, handlers running
MaxWaits == 1          \* clock steps between those update calls
MaxGap == 3            \* clock steps between two update calls of a running service

(***************************************************************************)
(* Priority (requests/mod.rs)                                              *)
(***************************************************************************)
Priority == {"Update", "Index", "Comments"}

\* Priority::ALL, the order in which RequestLimits::update visits the categories
ALL == <<"Update", "Comments", "Index">>

\* Priority::fraction, in tenths
FractionTenths(c) ==
    CASE c = "Update" -> 3
      [] c = "Comments" -> 6
      [] c = "Index" -> 1

\* const LIMIT_DURATION: Duration = Duration::from_secs(3600)
LIMIT_DURATION == 3600

\* 1.0 token, in the model's unit (1/36000 token)
One == LIMIT_DURATION * 10

Max(a, b) == IF a >= b THEN a ELSE b
Min(a, b) == IF a <= b THEN a ELSE b

(***************************************************************************)
(* RequestLimits (requests/limits.rs)                                      *)
(***************************************************************************)
\* the global limits (requests per hour) the budgeter is constructed with
Limits == {10, 100}

\* above this limit the model explores saturated queues only
SmallLimit == 10

\* the clock's step and the period of a regularly ticking caller, in seconds
TimeStep == LIMIT_DURATION \div StepsPerHour
TickPeriod == TimeStep

\* 0.2 * limit * fraction: the initial tokens of a category and its ceiling
CategoryCeiling(L, c) == (2 * L * FractionTenths(c) * One) \div 100

\* global_limit as f64 * 0.2
SavedUpLimit(L) == (2 * L * One) \div 10

\* `category as usize`: the discriminants of enum Priority (Update = 0, Index,
\* Comments), by which update() indexes category_limits
Discriminant(c) ==
    CASE c = "Update" -> 0
      [] c = "Index" -> 1
      [] c = "Comments" -> 2

\* RequestLimits::new: category_limits.  Priority::ALL.map fills the array in
\* the order of ALL, so the slot update() reads for category c (the slot
\* `c as usize`) holds the tokens of the category at that position of ALL
RequestLimitsNew(L, t) ==
    [c \in Priority |->
        [count |-> CategoryCeiling(L, ALL[Discriminant(c) + 1]), time |-> t]]

\* new_requests_allowed = elapsed / LIMIT_DURATION * fraction * global_limit
NewRequestsAllowed(elapsed, L, c) == elapsed * FractionTenths(c) * L

\* the value update() stores in self.saved_up: saved_up.max(global_limit * 0.2)
FinalSavedUp(s, L) == Max(s, SavedUpLimit(L))

\* a loop that goes on while the tokens are not negative
DequeuesToZero(count) == count \div One + 1
\* the number of times the loop `while *before_count >= 1.0` can succeed
MaxDequeues(count) == IF count >= One THEN count \div One ELSE 0

\* the dequeues the loop makes: as many as the tokens allow when the category's
\* queue is saturated, fewer when next_request finds the category empty (the
\* model explores a category holding no request, one request, or plenty)
LoopDequeues(count) ==
    IF saturated
    THEN {MaxDequeues(count)}
    ELSE {k \in {0, 1, MaxDequeues(count)} : k <= MaxDequeues(count)}

\* tokens left as they are
Unclamped(count, limit) == count
\* `if *before_count >= limit { ...; *before_count = limit; }`
ClampTokens(count, limit) == IF count >= limit THEN limit ELSE count

\* update(): `let mut saved_up = self.saved_up;`
UpdateStart ==
    /\ upd.pc = "idle"
    /\ ticks < MaxTicks
    /\ upd' = [pc |-> "loop", i |-> 1, saved_up |-> saved_up]
    /\ ticks' = ticks + 1
    /\ regular' = (regular /\ now - last_tick = TickPeriod)
    /\ last_tick' = now
    /\ UNCHANGED <<global_limit, category_limits, saved_up, now, saturated, dequeues>>
    /\ UNCHANGED <<refresh, queueVars, storeVars>>

\* update(): one iteration of `for category in Priority::ALL`
UpdateCategory ==
    /\ upd.pc = "loop"
    /\ upd.i <= Len(ALL)
    /\ LET c == ALL[upd.i]
           elapsed == now - category_limits[c].time
           accrued == category_limits[c].count
                        + NewRequestsAllowed(elapsed, global_limit, c)
                        + upd.saved_up
           limit == CategoryCeiling(global_limit, c)
       IN \E k \in LoopDequeues(accrued) :
            LET left == accrued - k * One
                over == left >= limit
            IN /\ category_limits' =
                    [category_limits EXCEPT
                        ![c] = [count |-> ClampTokens(left, limit), time |-> now]]
               /\ upd' = [upd EXCEPT !.i = upd.i + 1,
                                     !.saved_up = IF over THEN left - limit ELSE 0]
               /\ dequeues' = [dequeues EXCEPT ![c] = dequeues[c] + k]
    /\ UNCHANGED <<global_limit, saved_up, now, saturated, ticks, regular, last_tick>>
    /\ UNCHANGED <<refresh, queueVars, storeVars>>

\* update(): `self.saved_up = saved_up.max(self.global_limit as f64 * 0.2);`
UpdateFinish ==
    /\ upd.pc = "loop"
    /\ upd.i > Len(ALL)
    /\ saved_up' = FinalSavedUp(upd.saved_up, global_limit)
    /\ upd' = [pc |-> "idle", i |-> 0, saved_up |-> 0]
    /\ UNCHANGED <<global_limit, category_limits, now, saturated, dequeues,
                   ticks, regular, last_tick>>
    /\ UNCHANGED <<refresh, queueVars, storeVars>>

\* time passes between two update calls (a call itself takes far less than a
\* step of the model's clock)
AdvanceTime ==
    /\ upd.pc = "idle"
    /\ now < MaxAdvances * TimeStep
    /\ now' = now + TimeStep
    /\ UNCHANGED <<global_limit, category_limits, saved_up, upd, saturated, dequeues,
                   ticks, regular, last_tick>>
    /\ UNCHANGED <<refresh, queueVars, storeVars>>


\* the variables of the queue and of the store, at rest
QueueAtRest ==
    /\ repos = <<>>
    /\ queue = {}
    /\ request_sequence_number = 1
    /\ tasks = {}
    /\ allocs = 0
    /\ enqueues = 0
    /\ epoch = 1
    /\ handed_log = [c \in Priority |-> <<>>]
    /\ panicked = FALSE
    /\ lost = {}
    /\ fresh = TRUE

\* Option<T>
None == <<>>
Some(x) == <<x>>

\* the entity tables of database/schema.rs, empty.  A table is the set of its
\* rows; a row that refers to a row of another table holds that row's unique key
EmptyStore ==
    [User |-> {}, Label |-> {}, IssuePullRequestShared |-> {}, Issue |-> {},
     PullRequest |-> {}, Assignment |-> {}, LabelLink |-> {}, Comment |-> {},
     ReviewRequest |-> {}]

StoreAtRest ==
    /\ store = EmptyStore
    /\ before = EmptyStore
    /\ last_obs = None
    /\ last_status = "Unchanged"
    /\ observations = 0
    /\ utc_now = 0
    /\ upstream_page = None
    /\ pass = 0
    /\ statuses = <<>>
    /\ upstream = 1
    /\ fetched = <<None, None>>
    /\ newest = 0

\* a budgeter fresh from RequestLimits::new at time 0
InitLimits ==
    /\ global_limit \in Limits
    /\ saturated \in BOOLEAN
    /\ (global_limit > SmallLimit => saturated)
    /\ now = 0
    /\ category_limits = RequestLimitsNew(global_limit, now)
    /\ saved_up = 0
    /\ upd = [pc |-> "idle", i |-> 0, saved_up |-> 0]
    /\ dequeues = [c \in Priority |-> 0]
    /\ ticks = 0
    /\ regular = TRUE
    /\ last_tick = 0
    /\ refresh = 0
    /\ QueueAtRest
    /\ StoreAtRest

NextLimits ==
    \/ UpdateStart
    \/ UpdateCategory
    \/ UpdateFinish
    \/ AdvanceTime

\* the budgeter, ticked at any times against any queue content
SpecLimits == InitLimits /\ [][NextLimits]_vars


(***************************************************************************)
(* Properties of the rate budgeter                                         *)
(***************************************************************************)
TotalDequeues == dequeues["Update"] + dequeues["Comments"] + dequeues["Index"]

\* C5: over a window W of at least an hour (here W = now, the budgeter being
\* constructed at time 0) the total number of successful dequeues is at most
\* global_limit * W/3600 * 1.2, whatever the schedule of ticks and the queue
\* content; the dequeues do not grow with the number of ticks.
C5_LongTermRate ==
    now >= LIMIT_DURATION =>
        TotalDequeues * LIMIT_DURATION * 10 <= global_limit * now * 12

\* C6: with global_limit = 100 and saturated queues, a fresh budgeter ticked
\* regularly over one hour dequeues 30 +- 1 Update, 60 +- 1 Comments and
\* 10 +- 1 Index requests.
C6_BudgetFairness ==
    ( /\ global_limit = 100
      /\ saturated
      /\ regular
      /\ upd.pc = "idle"
      /\ now = LIMIT_DURATION
      /\ ticks * TickPeriod = LIMIT_DURATION ) =>
        /\ dequeues["Update"] \in 29 .. 31
        /\ dequeues["Comments"] \in 59 .. 61
        /\ dequeues["Index"] \in 9 .. 11


(***************************************************************************)
(* The request queue (lib.rs, requests/add.rs) and the handlers            *)
(* (requests/handle.rs)                                                    *)
(***************************************************************************)
\* the repository lists GithubDb::new is given
RepoConfigs == {<<"acme/widget">>, <<"acme/widget", "acme/gadget">>}

\* a list request that forgets the url
ListRequestByPage(name, repo, page, url) ==
    [name |-> name, repo |-> repo, page |-> page, url |-> None]
\* Request::{OldPr, NewPr, NewIssue, OldIssue}
ListRequest(name, repo, page, url) ==
    [name |-> name, repo |-> repo, page |-> page, url |-> url]

\* Request::Comments
CommentsRequest(repo, issue_number, since_timestamp, page, url) ==
    [name |-> "Comments", repo |-> repo, issue_number |-> issue_number,
     since_timestamp |-> since_timestamp, page |-> page, url |-> url]

\* a row of table Request; ord and born are history (the how-manieth allocation
\* of a sequence number made the row, and in which process lifetime)
RequestRow(sequence_number, c, r, ord, born) ==
    [sequence_number |-> sequence_number, category |-> c, name |-> r.name,
     data |-> r, ok |-> TRUE, ord |-> ord, born |-> born]

\* a fetch_sub in the place of the fetch_add
FetchSub(counter) == [value |-> counter, counter |-> counter - 1]

\* request_sequence_number.fetch_add(1, Ordering::Relaxed)
FetchAdd(counter) == [value |-> counter, counter |-> counter + 1]

\* txn.insert(Request {..}).expect("duplicate sequence number")
InsertRequest(q, row) ==
    IF \E r \in q : r.sequence_number = row.sequence_number
    THEN [queue |-> q, panicked |-> TRUE]
    ELSE [queue |-> q \cup {row}, panicked |-> FALSE]

\* rows.max(&queue.sequence_number).unwrap_or(0)
MaxSequenceNumber(q) ==
    IF q = {} THEN 0
    ELSE LET top == CHOOSE r \in q : \A o \in q : o.sequence_number <= r.sequence_number
         IN top.sequence_number

\* a GithubDb::new that resumes at the maximum itself
ResumeAtMaximum(q) == MaxSequenceNumber(q)

\* GithubDb::new: the value request_sequence_number starts at
ResumeSequenceNumber(q) == MaxSequenceNumber(q) + 1

\* a count over the rows of every name
CountRows(q, name) == Cardinality(q)

\* startup_requests: `row.filter(r.name.eq(name)); row.count_distinct(r)`
CountByName(q, name) == Cardinality({r \in q : r.name = name})

\* add_request, as startup_requests calls it (nothing else runs yet): the state
\* st = [queue, counter, allocs, panicked] after enqueuing r in category c
AddRequestNow(st, c, r, born) ==
    LET fa == FetchAdd(st.counter)
        ins == InsertRequest(st.queue,
                             RequestRow(fa.value, c, r, st.allocs + 1, born))
    IN [queue |-> ins.queue, counter |-> fa.counter, allocs |-> st.allocs + 1,
        panicked |-> st.panicked \/ ins.panicked]

\* a startup that enqueues the Old requests without counting the queued ones
StartupRepoUncounted(st, repo, born) ==
    LET s1 == AddRequestNow(st, "Index", ListRequest("OldPr", repo, 0, None), born)
        s2 == AddRequestNow(s1, "Index", ListRequest("OldIssue", repo, 0, None), born)
        s3 == AddRequestNow(s2, "Update", ListRequest("NewPr", repo, 0, None), born)
    IN AddRequestNow(s3, "Update", ListRequest("NewIssue", repo, 0, None), born)
\* startup_requests: the body of `for repo in &self.repos`
StartupRepo(st, repo, born) ==
    LET s1 == IF CountByName(st.queue, "OldPr") = 0
              THEN AddRequestNow(st, "Index", ListRequest("OldPr", repo, 0, None), born)
              ELSE st
        s2 == IF CountByName(s1.queue, "OldIssue") = 0
              THEN AddRequestNow(s1, "Index", ListRequest("OldIssue", repo, 0, None), born)
              ELSE s1
        s3 == AddRequestNow(s2, "Update", ListRequest("NewPr", repo, 0, None), born)
    IN AddRequestNow(s3, "Update", ListRequest("NewIssue", repo, 0, None), born)

\* startup_requests
RECURSIVE StartupRequests(_, _, _)
StartupRequests(st, rs, born) ==
    IF rs = <<>> THEN st
    ELSE StartupRequests(StartupRepo(st, Head(rs), born), Tail(rs), born)

\* GithubDb::new on the store holding the queue q
GithubDbNew(q, rs, allocated, born) ==
    StartupRequests([queue |-> q, counter |-> ResumeSequenceNumber(q),
                     allocs |-> allocated, panicked |-> FALSE], rs, born)

\* data that always deserializes
AlwaysDeserializes(row) == TRUE
\* `serde_json::from_slice(data)` is Ok for the data of the row
Deserializes(row) == row.ok

\* a next_request that returns the oldest row of category c and leaves it in the
\* queue
next_request_keeping(q, c) ==
    LET rows == {r \in q : r.category = c}
    IN IF rows = {} THEN [queue |-> q, request |-> None]
       ELSE LET req == CHOOSE r \in rows :
                          \A o \in rows : r.sequence_number <= o.sequence_number
            IN [queue |-> q, request |-> Some(req)]

\* next_request: the loop, on the queue q; deletes the oldest row of category c
\* and goes on to the next one while the row's data does not deserialize
RECURSIVE next_request(_, _)
next_request(q, c) ==
    LET rows == {r \in q : r.category = c}
    IN IF rows = {} THEN [queue |-> q, request |-> None]
       ELSE LET req == CHOOSE r \in rows :
                          \A o \in rows : r.sequence_number <= o.sequence_number
            IN IF Deserializes(req)
               THEN [queue |-> q \ {req}, request |-> Some(req)]
               ELSE next_request(q \ {req}, c)

\* a page number that always advances
KeepCounting(page_num, next) == page_num + 1
\* handle_list_prs / handle_list_issues: `next_page_num`
NextPageNum(page_num, next) == IF next # None THEN page_num + 1 ELSE 0

\* handle_list_prs / handle_list_issues: the `match (list_type, any_updated)`;
\* the requests the handler enqueues after the page's items, in order
\* a follow-up after every page, whatever the list type
FollowEveryPage(r, any_updated, next) ==
    << [category |-> IF any_updated THEN "Update" ELSE "Index",
        request |-> ListRequest(r.name, r.repo, NextPageNum(r.page, next), next)] >>
ListFollowUps(r, any_updated, next) ==
    LET new == r.name \in {"NewPr", "NewIssue"}
        follow == ListRequest(r.name, r.repo, NextPageNum(r.page, next), next)
    IN IF new
       THEN IF any_updated THEN << [category |-> "Update", request |-> follow] >>
            ELSE <<>>
       ELSE << [category |-> IF any_updated THEN "Update" ELSE "Index",
                request |-> follow] >>

\* a follow-up that fetches the comments from the start
CommentsFromStart(r, any_updated, next) ==
    IF any_updated /\ next # None
    THEN << [category |-> "Comments",
             request |-> CommentsRequest(r.repo, r.issue_number, None,
                                         r.page + 1, next)] >>
    ELSE <<>>
\* handle_list_comments: `if any_updated && let Some(next) = next`
CommentsFollowUps(r, any_updated, next) ==
    IF any_updated /\ next # None
    THEN << [category |-> "Comments",
             request |-> CommentsRequest(r.repo, r.issue_number, r.since_timestamp,
                                         r.page + 1, next)] >>
    ELSE <<>>

\* add_comments_updated_req, for one item of an issue page
\* a Comments request that always carries the issue's timestamp
CommentsSinceUpdate(issue_status, repo, issue_updated_timestamp, issue_number) ==
    IF issue_status = "Unchanged" THEN <<>>
    ELSE << [category |-> "Comments",
             request |-> CommentsRequest(repo, issue_number,
                            issue_updated_timestamp, 0, None)] >>
CommentsUpdatedReq(issue_status, repo, issue_updated_timestamp, issue_number) ==
    IF issue_status = "Unchanged" THEN <<>>
    ELSE << [category |-> "Comments",
             request |-> CommentsRequest(repo, issue_number,
                            IF issue_status = "New" THEN None
                            ELSE issue_updated_timestamp, 0, None)] >>

\* the next-page url the upstream returns with page `page` of a list
UpstreamNexts(page) == {None, Some(page + 1)}

\* the requests a handler enqueues for request r, over the results the upstream
\* can give: a page of one item with any classification, with or without next
HandlerOutcomes(r) ==
    IF r.name = "Comments"
    THEN {CommentsFollowUps(r, u, n) : u \in BOOLEAN, n \in UpstreamNexts(r.page)}
    ELSE IF r.name \in {"NewIssue", "OldIssue"}
    THEN {CommentsUpdatedReq(st, r.repo, Some(1), 1)
            \o ListFollowUps(r, st # "Unchanged", n) :
                st \in {"New", "Updated", "Unchanged"}, n \in UpstreamNexts(r.page)}
    ELSE {ListFollowUps(r, u, n) : u \in BOOLEAN, n \in UpstreamNexts(r.page)}


\* a task in flight: a spawned handle_request(req), or the refresh() of update()
\* (req = None); pc is its position, todo the add_req calls it still has to
\* make, pending the row of an add_req between its fetch_add and its insert
Task(req, pc, todo, pending) ==
    [req |-> req, pc |-> pc, todo |-> todo, pending |-> pending]

RefreshRunning == \E t \in tasks : t.req = None

\* the number of requests handed out so far
Handled == Len(handed_log["Update"]) + Len(handed_log["Index"]) + Len(handed_log["Comments"])

\* refresh(): the requests it enqueues
RECURSIVE RefreshRequests(_)
RefreshRequests(rs) ==
    IF rs = <<>> THEN <<>>
    ELSE << [category |-> "Update", request |-> ListRequest("NewPr", Head(rs), 0, None)],
            [category |-> "Update", request |-> ListRequest("NewIssue", Head(rs), 0, None)] >>
         \o RefreshRequests(Tail(rs))

\* update(): the refresh timer has fired, refresh() starts
RefreshFire ==
    /\ ~panicked
    /\ ~RefreshRunning
    /\ enqueues + 2 * Len(repos) <= MaxEnqueues
    /\ tasks' = tasks \cup {Task(None, "add", RefreshRequests(repos), None)}
    /\ UNCHANGED <<repos, queue, request_sequence_number, allocs, enqueues, epoch,
                   handed_log, panicked, lost>>
    /\ fresh' = FALSE
    /\ UNCHANGED <<limitVars, storeVars>>

\* update(): the budgeter's closure: next_request(c), and on a request
\* task::spawn of its handler
NextRequest(c) ==
    /\ ~panicked
    /\ ~RefreshRunning
    /\ Handled < MaxHandled
    /\ LET res == next_request(queue, c)
       IN /\ queue' = res.queue
          /\ IF res.request = None
             THEN UNCHANGED <<tasks, handed_log>>
             ELSE /\ tasks' = tasks \cup {Task(res.request, "fetch", <<>>, None)}
                  /\ handed_log' = [handed_log EXCEPT
                                        ![c] = Append(handed_log[c], res.request[1].ord)]
    /\ UNCHANGED <<repos, request_sequence_number, allocs, enqueues, epoch,
                   panicked, lost>>
    /\ fresh' = FALSE
    /\ UNCHANGED <<limitVars, storeVars>>

\* handle_request: the upstream answered and the handler has processed the
\* items.  It returns when it has nothing to enqueue; otherwise its first
\* add_req allocates a sequence number (the first step of the handler that
\* touches state it shares with other tasks)
HandlerFetched(t) ==
    /\ ~panicked
    /\ t.pc = "fetch"
    /\ \E out \in HandlerOutcomes(t.req[1].data) :
          IF out = <<>>
          THEN /\ tasks' = tasks \ {t}
               /\ UNCHANGED <<request_sequence_number, allocs, enqueues>>
          ELSE /\ enqueues < MaxEnqueues
               /\ LET fa == FetchAdd(request_sequence_number)
                      e == Head(out)
                      row == RequestRow(fa.value, e.category, e.request,
                                        allocs + 1, epoch)
                  IN /\ request_sequence_number' = fa.counter
                     /\ tasks' = (tasks \ {t}) \cup
                                   {Task(t.req, "insert", Tail(out), Some(row))}
               /\ allocs' = allocs + 1
               /\ enqueues' = enqueues + 1
    /\ UNCHANGED <<repos, queue, epoch, handed_log, panicked, lost>>
    /\ fresh' = FALSE
    /\ UNCHANGED <<limitVars, storeVars>>

\* build_request!: the upstream call failed, the handler returns
HandlerFailed(t) ==
    /\ ~panicked
    /\ t.pc = "fetch"
    /\ tasks' = tasks \ {t}
    /\ UNCHANGED <<repos, queue, request_sequence_number, allocs, enqueues,
                   epoch, handed_log, panicked, lost>>
    /\ fresh' = FALSE
    /\ UNCHANGED <<limitVars, storeVars>>

\* add_req: `self.request_sequence_number.fetch_add(1, Ordering::Relaxed)`
AddReqFetchAdd(t) ==
    /\ ~panicked
    /\ t.pc = "add"
    /\ enqueues < MaxEnqueues
    /\ LET fa == FetchAdd(request_sequence_number)
           e == Head(t.todo)
           row == RequestRow(fa.value, e.category, e.request, allocs + 1, epoch)
       IN /\ request_sequence_number' = fa.counter
          /\ tasks' = (tasks \ {t}) \cup {Task(t.req, "insert", Tail(t.todo), Some(row))}
    /\ allocs' = allocs + 1
    /\ enqueues' = enqueues + 1
    /\ UNCHANGED <<repos, queue, epoch, handed_log, panicked, lost>>
    /\ fresh' = FALSE
    /\ UNCHANGED <<limitVars, storeVars>>

\* add_req: the insert transaction
AddReqInsert(t) ==
    /\ ~panicked
    /\ t.pc = "insert"
    /\ LET ins == InsertRequest(queue, t.pending[1])
       IN /\ queue' = ins.queue
          /\ panicked' = ins.panicked
    /\ tasks' = (tasks \ {t}) \cup
                  (IF t.todo = <<>> THEN {} ELSE {Task(t.req, "add", t.todo, None)})
    /\ UNCHANGED <<repos, request_sequence_number, allocs, enqueues, epoch,
                   handed_log, lost>>
    /\ fresh' = FALSE
    /\ UNCHANGED <<limitVars, storeVars>>

\* the process is killed while a handler is running, and started again: every
\* task in flight is gone, the store is kept, GithubDb::new runs
CrashRestart ==
    /\ \E t \in tasks : t.req # None
    /\ LET st == GithubDbNew(queue, repos, allocs, epoch + 1)
       IN /\ queue' = st.queue
          /\ request_sequence_number' = st.counter
          /\ allocs' = st.allocs
          /\ panicked' = st.panicked
    /\ lost' = {t.req[1] : t \in {x \in tasks : x.req # None}}
    /\ tasks' = {}
    /\ epoch' = epoch + 1
    /\ UNCHANGED <<repos, enqueues, handed_log>>
    /\ fresh' = TRUE
    /\ UNCHANGED <<limitVars, storeVars>>

\* the budgeter's variables, at rest
LimitsAtRest ==
    /\ global_limit = 0
    /\ saturated = FALSE
    /\ now = 0
    /\ category_limits = RequestLimitsNew(0, 0)
    /\ saved_up = 0
    /\ upd = [pc |-> "idle", i |-> 0, saved_up |-> 0]
    /\ dequeues = [c \in Priority |-> 0]
    /\ ticks = 0
    /\ regular = TRUE
    /\ last_tick = 0
    /\ refresh = 0

\* the state GithubDb::new leaves on an empty store, for a repository list of
\* configs
InitQueueOf(configs) ==
    /\ repos \in configs
    /\ LET st == GithubDbNew({}, repos, 0, 1)
       IN /\ queue = st.queue
          /\ request_sequence_number = st.counter
          /\ allocs = st.allocs
          /\ panicked = st.panicked
    /\ tasks = {}
    /\ enqueues = 0
    /\ epoch = 1
    /\ handed_log = [c \in Priority |-> <<>>]
    /\ lost = {}
    /\ fresh = TRUE
    /\ LimitsAtRest
    /\ StoreAtRest

InitQueue == InitQueueOf({<<"acme/widget">>})

InitRepos == InitQueueOf(RepoConfigs)

\* a request an earlier run of the program left in category c
LeftRequest(c, n) ==
    IF c = "Comments" THEN CommentsRequest("acme/widget", n, None, 0, None)
    ELSE ListRequest("NewPr", "acme/widget", n, Some(n))

\* the queues an earlier run left in the store: three rows of one category,
\* each with data that deserializes or not (written by another version of the
\* program)
LeftQueues ==
    {{[RequestRow(n, c, LeftRequest(c, n), n, 0) EXCEPT !.ok = oks[n]] : n \in 1 .. 3} :
        c \in {"Comments"}, oks \in [1 .. 3 -> BOOLEAN]}

\* the state GithubDb::new leaves on a store whose queue an earlier run left
InitLeft ==
    /\ repos = <<"acme/widget">>
    /\ \E q \in LeftQueues :
          LET st == GithubDbNew(q, repos, 3, 1)
          IN /\ queue = st.queue
             /\ request_sequence_number = st.counter
             /\ allocs = st.allocs
             /\ panicked = st.panicked
    /\ tasks = {}
    /\ enqueues = 0
    /\ epoch = 1
    /\ handed_log = [c \in Priority |-> <<>>]
    /\ lost = {}
    /\ fresh = TRUE
    /\ LimitsAtRest
    /\ StoreAtRest

NextQueue ==
    \/ RefreshFire
    \/ \E c \in Priority : NextRequest(c)
    \/ \E t \in tasks : HandlerFetched(t)
    \/ \E t \in tasks : HandlerFailed(t)
    \/ \E t \in tasks : AddReqFetchAdd(t)
    \/ \E t \in tasks : AddReqInsert(t)
    \/ CrashRestart

\* the queue with its concurrent enqueuers, the dequeues of update(), and
\* crashes
SpecQueue == InitQueue /\ [][NextQueue]_vars

\* update() dequeues and the handlers run, no refresh and no crash
NextLeft ==
    \/ \E c \in Priority : NextRequest(c)
    \/ \E t \in tasks : HandlerFetched(t)
    \/ \E t \in tasks : HandlerFailed(t)
    \/ \E t \in tasks : AddReqFetchAdd(t)
    \/ \E t \in tasks : AddReqInsert(t)

\* the dequeues of a queue an earlier run left
SpecLeft == InitLeft /\ [][NextLeft]_vars

\* build_request!: the upstream call failed and the handler returns; the
\* history keeps the request it dropped
HandlerDropped(t) ==
    /\ ~panicked
    /\ t.pc = "fetch"
    /\ tasks' = tasks \ {t}
    /\ lost' = lost \cup {t.req[1]}
    /\ UNCHANGED <<repos, queue, request_sequence_number, allocs, enqueues,
                   epoch, handed_log, panicked>>
    /\ fresh' = FALSE
    /\ UNCHANGED <<limitVars, storeVars>>

NextRecover ==
    \/ RefreshFire
    \/ \E c \in Priority : NextRequest(c)
    \/ \E t \in tasks : HandlerFetched(t)
    \/ \E t \in tasks : HandlerDropped(t)
    \/ \E t \in tasks : AddReqFetchAdd(t)
    \/ \E t \in tasks : AddReqInsert(t)

\* the process keeps ticking and is never restarted: the refresh timer fires,
\* update() dequeues, and every spawned task runs on
SpecRecover ==
    /\ InitQueue
    /\ [][NextRecover]_vars
    /\ WF_vars(RefreshFire)
    /\ \A c \in Priority : WF_vars(NextRequest(c))
    /\ WF_vars(\E t \in tasks : HandlerFetched(t) \/ HandlerDropped(t))
    /\ WF_vars(\E t \in tasks : AddReqFetchAdd(t))
    /\ WF_vars(\E t \in tasks : AddReqInsert(t))

\* the same, for one or two configured repositories
SpecRepos == InitRepos /\ [][NextQueue]_vars


(***************************************************************************)
(* The entity upserter (database/updates.rs).  A transaction in progress   *)
(* is tx = [store, status]: the tables, and the `status` the ensure_*      *)
(* routines update.  Text columns that take no part in a decision (names,  *)
(* descriptions, colours, bodies, shas, counters) are left out of the rows *)
(***************************************************************************)
\* ProcessStatus: `other as usize`
Rank(status) == CASE status = "New" -> 0 [] status = "Updated" -> 1 [] status = "Unchanged" -> 2

\* an update that keeps the greater of the two
ProcessStatusKeepGreater(self, other) == IF Rank(other) > Rank(self) THEN other ELSE self

\* ProcessStatus::update
ProcessStatusUpdate(self, other) == IF Rank(other) < Rank(self) THEN other ELSE self

\* an update! that reports every tracked write as a change
TrackedAlways(status, a, b) == ProcessStatusUpdate(status, "Updated")

\* gen_update!: `update!(tracked: a, b)`, its effect on status
Tracked(status, a, b) == IF a # b THEN ProcessStatusUpdate(status, "Updated") ELSE status

\* ensure_user_exists; a User row is its github_id
ensure_user_exists(tx, author) ==
    IF author \in tx.store.User THEN tx
    ELSE [store |-> [tx.store EXCEPT !.User = @ \cup {author}],
          status |-> ProcessStatusUpdate(tx.status, "Updated")]

\* ensure_label_exists; a Label row is its name
ensure_label_exists(tx, label) ==
    IF label \in tx.store.Label THEN tx
    ELSE [store |-> [tx.store EXCEPT !.Label = @ \cup {label}],
          status |-> ProcessStatusUpdate(tx.status, "Updated")]

\* a Shared table unique by (repo, number)
ensure_shared_per_repo(tx, user, repo, number, title, created_timestamp, updated_timestamp, closed_at_timestamp, closed_by) ==
    LET rows == {r \in tx.store.IssuePullRequestShared :
                    r.number = number /\ r.repo = repo}
        row == [number |-> number,
                title |-> IF title = None THEN "" ELSE title[1],
                author |-> user,
                created_timestamp |-> created_timestamp,
                updated_timestamp |-> updated_timestamp,
                closed_at_timestamp |-> closed_at_timestamp,
                repo |-> repo,
                closed_by |-> closed_by]
    IN [store |-> [tx.store EXCEPT !.IssuePullRequestShared = (@ \ rows) \cup {row}],
        status |-> ProcessStatusUpdate(tx.status, IF rows = {} THEN "New" ELSE "Updated")]
\* ensure_shared_exists; IssuePullRequestShared is unique by number
ensure_shared_exists(tx, user, repo, number, title, created_timestamp, updated_timestamp, closed_at_timestamp, closed_by) ==
    LET rows == {r \in tx.store.IssuePullRequestShared : r.number = number}
    IN IF rows = {}
       THEN [store |-> [tx.store EXCEPT !.IssuePullRequestShared = @ \cup
                          {[number |-> number,
                            title |-> IF title = None THEN "" ELSE title[1],
                            author |-> user,
                            created_timestamp |-> created_timestamp,
                            updated_timestamp |-> updated_timestamp,
                            closed_at_timestamp |-> closed_at_timestamp,
                            repo |-> repo,
                            closed_by |-> closed_by]}],
             status |-> ProcessStatusUpdate(tx.status, "New")]
       ELSE LET e == CHOOSE r \in rows : TRUE
                shared == [e EXCEPT !.title = IF title # None THEN title[1] ELSE @,
                                    !.author = user,
                                    !.created_timestamp = created_timestamp,
                                    !.updated_timestamp = updated_timestamp,
                                    !.closed_at_timestamp = closed_at_timestamp,
                                    !.closed_by = closed_by]
            IN [store |-> [tx.store EXCEPT !.IssuePullRequestShared =
                                               (@ \ {e}) \cup {shared}],
                status |-> Tracked(tx.status, e.updated_timestamp, updated_timestamp)]

\* ensure_issue_exists
ensure_issue_exists(tx, shared) ==
    IF [shared |-> shared] \in tx.store.Issue THEN tx
    ELSE [store |-> [tx.store EXCEPT !.Issue = @ \cup {[shared |-> shared]}],
          status |-> ProcessStatusUpdate(tx.status, "New")]

\* ensure_pr_exists; PullRequest is unique by shared
ensure_pr_exists(tx, shared, merged_at_timestamp, merge_commit_sha, merged_by, head_sha) ==
    LET rows == {r \in tx.store.PullRequest : r.shared = shared}
        pr == [shared |-> shared,
               merged_at_timestamp |-> merged_at_timestamp,
               merge_commit_sha |-> merge_commit_sha,
               merged_by |-> merged_by,
               head_sha |-> Some(head_sha)]
    IN IF rows = {}
       THEN [store |-> [tx.store EXCEPT !.PullRequest = @ \cup {pr}],
             status |-> ProcessStatusUpdate(tx.status, "New")]
       ELSE [store |-> [tx.store EXCEPT !.PullRequest = (@ \ rows) \cup {pr}],
             status |-> tx.status]

\* a Comment whose author is written only on insert
comment_author_kept(tx, comment_id, author, issue_or_pr, created_timestamp, updated_timestamp) ==
    LET rows == {r \in tx.store.Comment : r.comment_id = comment_id}
    IN IF rows = {}
       THEN [store |-> [tx.store EXCEPT !.Comment = @ \cup
                          {[comment_id |-> comment_id, author |-> author,
                            issue_or_pr |-> issue_or_pr,
                            created_timestamp |-> created_timestamp,
                            updated_timestamp |-> updated_timestamp]}],
             status |-> ProcessStatusUpdate(tx.status, "New")]
       ELSE LET e == CHOOSE r \in rows : TRUE
                comment == [e EXCEPT !.updated_timestamp = updated_timestamp]
            IN [store |-> [tx.store EXCEPT !.Comment = (@ \ {e}) \cup {comment}],
                status |-> Tracked(tx.status, e.updated_timestamp, updated_timestamp)]
\* ensure_comment_exists; Comment is unique by comment_id
ensure_comment_exists(tx, comment_id, author, issue_or_pr, created_timestamp, updated_timestamp) ==
    LET rows == {r \in tx.store.Comment : r.comment_id = comment_id}
    IN IF rows = {}
       THEN [store |-> [tx.store EXCEPT !.Comment = @ \cup
                          {[comment_id |-> comment_id, author |-> author,
                            issue_or_pr |-> issue_or_pr,
                            created_timestamp |-> created_timestamp,
                            updated_timestamp |-> updated_timestamp]}],
             status |-> ProcessStatusUpdate(tx.status, "New")]
       ELSE LET e == CHOOSE r \in rows : TRUE
                comment == [e EXCEPT !.author = author,
                                     !.created_timestamp = created_timestamp,
                                     !.updated_timestamp = updated_timestamp]
            IN [store |-> [tx.store EXCEPT !.Comment = (@ \ {e}) \cup {comment}],
                status |-> Tracked(tx.status, e.updated_timestamp, updated_timestamp)]

\* an update_assignments that leaves the flags of the existing rows alone
KeepAssignments(s, shared) == s

\* update_assignments: `for i in assignments_for_shared { outdated = 1 }`
MarkAssignmentsOutdated(s, shared) ==
    [s EXCEPT !.Assignment =
        {IF a.issue_or_pr = shared THEN [a EXCEPT !.outdated = 1] ELSE a : a \in @}]

\* update_label_assignments: `for i in assignments_for_shared { outdated = 1 }`
MarkLabelLinksOutdated(s, shared) ==
    [s EXCEPT !.LabelLink =
        {IF l.issue_or_pr = shared THEN [l EXCEPT !.outdated = 1] ELSE l : l \in @}]

\* update_assignments: `for user in users`; Assignment is unique by
\* (user, issue_or_pr)
RECURSIVE UpsertAssignments(_, _, _)
UpsertAssignments(tx, shared, users) ==
    IF users = <<>> THEN tx
    ELSE LET user == Head(users)
             rows == {a \in tx.store.Assignment :
                         a.user = user /\ a.issue_or_pr = shared}
             row == [user |-> user, issue_or_pr |-> shared, outdated |-> 0]
             next == IF rows = {}
                     THEN [store |-> [tx.store EXCEPT !.Assignment = @ \cup {row}],
                           status |-> ProcessStatusUpdate(tx.status, "New")]
                     ELSE [store |-> [tx.store EXCEPT !.Assignment =
                                                          (@ \ rows) \cup {row}],
                           status |-> tx.status]
         IN UpsertAssignments(next, shared, Tail(users))

\* update_label_assignments: `for label in labels`; LabelLink is unique by
\* (issue_or_pr, label); an inserted link leaves status alone
RECURSIVE UpsertLabelLinks(_, _, _)
UpsertLabelLinks(tx, shared, labels) ==
    IF labels = <<>> THEN tx
    ELSE LET label == Head(labels)
             rows == {l \in tx.store.LabelLink :
                         l.label = label /\ l.issue_or_pr = shared}
             row == [issue_or_pr |-> shared, label |-> label, outdated |-> 0]
             next == [store |-> [tx.store EXCEPT !.LabelLink = (@ \ rows) \cup {row}],
                      status |-> tx.status]
         IN UpsertLabelLinks(next, shared, Tail(labels))

\* the final query of update_assignments and of update_label_assignments: the
\* Assignment rows of shared with outdated = 1, as the keys of the rows
OutdatedAssignments(s, shared) ==
    {[user |-> a.user, issue_or_pr |-> a.issue_or_pr] :
        a \in {x \in s.Assignment : x.issue_or_pr = shared /\ x.outdated = 1}}

\* update_assignments: the transaction after it, and the rows it returns
update_assignments(tx, shared, users) ==
    LET marked == [tx EXCEPT !.store = MarkAssignmentsOutdated(@, shared)]
        done == UpsertAssignments(marked, shared, users)
    IN [tx |-> done, outdated |-> OutdatedAssignments(done.store, shared)]

\* update_label_assignments: the transaction after it, and the rows it returns
update_label_assignments(tx, shared, labels) ==
    LET marked == [tx EXCEPT !.store = MarkLabelLinksOutdated(@, shared)]
        done == UpsertLabelLinks(marked, shared, labels)
    IN [tx |-> done, outdated |-> OutdatedAssignments(done.store, shared)]

\* `for i in outdated_assignments { txn.delete(i) }`, and the same for
\* outdated_labels: the rows are rows of Assignment
DeleteAssignments(s, keys) ==
    [s EXCEPT !.Assignment =
        {a \in @ : [user |-> a.user, issue_or_pr |-> a.issue_or_pr] \notin keys}]

\* `.map(|user| ensure_user_exists(txn, &mut status, user))`
RECURSIVE EnsureUsers(_, _)
EnsureUsers(tx, users) ==
    IF users = <<>> THEN tx
    ELSE EnsureUsers(ensure_user_exists(tx, Head(users)), Tail(users))

\* `.map(|label| ensure_label_exists(txn, &mut status, label))`
RECURSIVE EnsureLabels(_, _)
EnsureLabels(tx, labels) ==
    IF labels = <<>> THEN tx
    ELSE EnsureLabels(ensure_label_exists(tx, Head(labels)), Tail(labels))

\* process_issue / process_pr: from the labels on, the same in both
Reconcile(tx, shared, labels, assignees) ==
    LET t1 == EnsureLabels(tx, labels)
        l == update_label_assignments(t1, shared, labels)
        t2 == EnsureUsers(l.tx, assignees)
        a == update_assignments(t2, shared, assignees)
    IN [store |-> DeleteAssignments(DeleteAssignments(a.tx.store, a.outdated),
                                    l.outdated),
        status |-> a.tx.status]

\* `closed_by.map(|user| ensure_user_exists(..))`
EnsureOptionalUser(tx, user) ==
    IF user = None THEN tx ELSE ensure_user_exists(tx, user[1])

\* `(state == Closed).then(|| closed_at.unwrap_or_else(Utc::now).timestamp())`
\* the closed_at of the payload, whatever the state
ClosedAtGiven(closed, closed_at, t) == closed_at
ClosedAt(closed, closed_at, t) ==
    IF closed THEN Some(IF closed_at # None THEN closed_at[1] ELSE t) ELSE None

\* process_issue, at time t: the transaction; the result is [store, status]
process_issue(s, item, t) ==
    LET t0 == [store |-> s, status |-> "Unchanged"]
        t1 == ensure_user_exists(t0, item.user)
        closed_at == ClosedAt(item.state = "Closed", item.closed_at, t)
        t2 == EnsureOptionalUser(t1, item.closed_by)
        t3 == ensure_shared_exists(t2, item.user, item.repo, item.number,
                                   Some(item.title), item.created_at,
                                   item.updated_at, closed_at, item.closed_by)
        t4 == ensure_issue_exists(t3, item.number)
    IN Reconcile(t4, item.number, item.labels, item.assignees)

\* process_pr, at time t
process_pr(s, item, t) ==
    IF item.user = None THEN [store |-> s, status |-> "Unchanged"]
    ELSE
    LET t0 == [store |-> s, status |-> "Unchanged"]
        t1 == ensure_user_exists(t0, item.user[1])
        closed_at == ClosedAt(item.state = Some("Closed"), item.closed_at, t)
        t2 == EnsureOptionalUser(t1, item.merged_by)
        created == IF item.created_at # None THEN item.created_at[1] ELSE t
        updated == IF item.updated_at # None THEN item.updated_at[1]
                   ELSE IF item.created_at # None THEN item.created_at[1] ELSE t
        t3 == ensure_shared_exists(t2, item.user[1], item.repo, item.number,
                                   item.title, created, updated, closed_at,
                                   item.merged_by)
        t4 == ensure_pr_exists(t3, item.number, item.merged_at,
                               item.merge_commit_sha, item.merged_by, item.head.sha)
    IN Reconcile(t4, item.number, item.labels, item.assignees)

\* a process_comment that stores the comment whether its parent is known or not
process_orphan(s, item) ==
    ensure_comment_exists(ensure_user_exists([store |-> s, status |-> "Unchanged"],
                                             item.user),
                          item.id, item.user, item.issue_number, item.created_at,
                          IF item.updated_at # None THEN item.updated_at[1]
                          ELSE item.created_at)
\* process_comment
process_comment(s, item) ==
    LET t0 == [store |-> s, status |-> "Unchanged"]
    IN IF ~ \E r \in s.IssuePullRequestShared : r.number = item.issue_number
       THEN t0
       ELSE ensure_comment_exists(ensure_user_exists(t0, item.user), item.id,
                                  item.user, item.issue_number, item.created_at,
                                  IF item.updated_at # None THEN item.updated_at[1]
                                  ELSE item.created_at)

\* the iter! of a handler, for one item of the page it was given
ProcessItem(s, item, t) ==
    CASE item.kind = "issue" -> process_issue(s, item, t)
      [] item.kind = "pr" -> process_pr(s, item, t)
      [] item.kind = "comment" -> process_comment(s, item)

\* the upstream items: an Issue, a PullRequest, a Comment of octocrab, with the
\* fields the upserter reads
IssueItem(number, user, title, state, closed_at, updated_at, labels, assignees) ==
    [kind |-> "issue", repo |-> "acme/widget", number |-> number, user |-> user,
     title |-> title, state |-> state, closed_at |-> closed_at, closed_by |-> None,
     created_at |-> 1, updated_at |-> updated_at, labels |-> labels,
     assignees |-> assignees]

PrItem(number, user, created_at, updated_at, merged_by, labels, assignees) ==
    [kind |-> "pr", repo |-> "acme/widget", number |-> number, user |-> user,
     title |-> Some("a"), state |-> Some("Open"), closed_at |-> None,
     merged_at |-> None, merge_commit_sha |-> None, head |-> [sha |-> "h1"],
     merged_by |-> merged_by, created_at |-> created_at, updated_at |-> updated_at,
     labels |-> labels, assignees |-> assignees, requested_reviewers |-> <<>>]

CommentItem(id, user, updated_at, issue_number) ==
    [kind |-> "comment", id |-> id, user |-> user, created_at |-> 1,
     updated_at |-> updated_at, issue_number |-> issue_number]

\* the assignee lists over users 1, 2, 3
AssigneeLists == {<<>>, <<1>>, <<2>>, <<3>>, <<1, 2>>, <<1, 3>>, <<2, 3>>, <<1, 2, 3>>}

\* the items upstream sends when the members of issue 1 and of pull request 2
\* change, everything else staying as it is; by kind of item
MemberItems ==
    [issue |-> {IssueItem(1, 1, "a", "Open", None, 1, l, a) :
                   l \in {<<>>, <<"bug">>, <<"docs">>}, a \in AssigneeLists},
     pr |-> {[PrItem(2, u, Some(1), Some(1), None, l, a)
                EXCEPT !.requested_reviewers = r] :
                u \in {None, Some(1)}, l \in {<<>>, <<"bug">>}, a \in {<<>>, <<2>>},
                r \in {<<>>, <<3>>}}]

\* the items upstream sends about number 1: as an issue, as a pull request, and
\* comments on it; and an issue 2 that has the label too
ClassifyItems ==
    [issue |-> {IssueItem(1, u, t, "Open", None, at, l, a) :
                   u \in {1, 2}, t \in {"a", "b"}, at \in {1, 2},
                   l \in {<<>>, <<"bug">>}, a \in {<<>>, <<3>>}}
               \cup {IssueItem(2, 1, "a", "Open", None, 1, <<"bug">>, <<>>)}
               \cup {[IssueItem(1, 2, t, "Open", None, 2, <<>>, <<>>)
                         EXCEPT !.repo = "acme/gadget"] : t \in {"a", "b"}},
     pr |-> {PrItem(1, u, Some(1), at, m, <<>>, <<>>) :
                u \in {None, Some(1)}, at \in {None, Some(1), Some(2)},
                m \in {None, Some(3)}},
     comment |-> {CommentItem(1, u, at, 1) : u \in {1, 2}, at \in {None, Some(2)}}]

\* a handler processes one item of its page
Observe(items) ==
    /\ observations < MaxObservations
    /\ \E kind \in DOMAIN items : \E item \in items[kind] :
          LET r == ProcessItem(store, item, utc_now)
          IN /\ store' = r.store
             /\ last_status' = r.status
             /\ last_obs' = Some(item)
    /\ before' = store
    /\ observations' = observations + 1
    /\ UNCHANGED <<utc_now, upstream_page, pass, statuses>>
    /\ UNCHANGED <<limitVars, queueVars, snapVars>>

\* an empty store, nothing queued
InitStore ==
    /\ StoreAtRest
    /\ LimitsAtRest
    /\ QueueAtRest

NextMembers == Observe(MemberItems)

NextClassify == Observe(ClassifyItems)

\* observations of an issue and a pull request whose members change
SpecMembers == InitStore /\ [][NextMembers]_vars

\* observations of one number as issue, pull request and comments
SpecClassify == InitStore /\ [][NextClassify]_vars

\* the items upstream sends over the life of issue 1 and pull request 2: open,
\* closed with and without closed_at and closed_by, reopened; the pull request
\* with each combination of merged_at, merge_commit_sha and merged_by, and
\* without author or state
LifecycleItems ==
    [issue |-> {[IssueItem(1, 1, "a", st, ca, 1, <<>>, <<>>) EXCEPT !.closed_by = cb] :
                   st \in {"Open", "Closed"}, ca \in {None, Some(1)},
                   cb \in {None, Some(2)}},
     pr |-> {[PrItem(2, Some(1), Some(1), Some(1), m[3], <<>>, <<>>) EXCEPT
                 !.state = st, !.closed_at = ca, !.merged_at = m[1],
                 !.merge_commit_sha = m[2]] :
                st \in {None, Some("Open"), Some("Closed")}, ca \in {None, Some(1)},
                m \in {None, Some(1)} \X {None, Some("c1")} \X {None, Some(3)}}
             \cup {[PrItem(2, None, Some(1), Some(1), None, <<>>, <<>>) EXCEPT
                       !.state = Some("Closed")]}]

NextLifecycle == Observe(LifecycleItems)

\* observations of an issue and a pull request that are closed, reopened, merged
SpecLifecycle == InitStore /\ [][NextLifecycle]_vars

\* the items of the pages upstream sends, by kind of page: issues and pull
\* requests with and without the timestamps upstream may leave out, a pull
\* request without author, comments on issue 1
PageItems ==
    [issue |-> {IssueItem(n[1], 1, "a", st[1], st[2], 1, <<>>, n[2]) :
                   n \in {<<1, <<>> >>, <<1, <<2>> >>, <<2, <<>> >>},
                   st \in {<<"Open", None>>, <<"Closed", Some(1)>>, <<"Closed", None>>}},
     pr |-> {PrItem(n, Some(1), at[1], at[2], None, <<>>, <<>>) :
                n \in {1, 2},
                at \in {<<None, None>>, <<Some(1), None>>, <<Some(1), Some(1)>>}}
            \cup {PrItem(1, None, None, None, None, <<>>, <<>>)},
     comment |-> {CommentItem(n, 1, at, 1) : n \in {1, 2}, at \in {None, Some(2)}}]

\* what upstream lists an item under: the number, the comment id
ItemKey(item) == IF item.kind = "comment" THEN item.id ELSE item.number

\* the pages, by kind: one or two distinct items
Pages ==
    [kind \in DOMAIN PageItems |->
        {<<i>> : i \in PageItems[kind]}
        \cup {p \in PageItems[kind] \X PageItems[kind] :
                 ItemKey(p[1]) < ItemKey(p[2])}]

\* iter!: `for issue in $items`, at time t; the store after the page and the
\* status of each item
RECURSIVE ProcessItems(_, _, _)
ProcessItems(s, items, t) ==
    IF items = <<>> THEN [store |-> s, statuses |-> <<>>]
    ELSE LET r == ProcessItem(s, Head(items), t)
             rest == ProcessItems(r.store, Tail(items), t)
         IN [store |-> rest.store, statuses |-> <<r.status>> \o rest.statuses]

\* an any_updated that is set by every item
AnyProcessed(sts) == sts # <<>>
\* iter!: `any_updated`
AnyUpdated(sts) == \E i \in 1 .. Len(sts) : sts[i] # "Unchanged"

\* a list handler processes the items of a page upstream has sent
HandlePage ==
    /\ pass # 1
    /\ observations < MaxPasses
    /\ \E kind \in DOMAIN Pages : \E p \in Pages[kind] :
          LET r == ProcessItems(store, p, utc_now)
          IN /\ store' = r.store
             /\ statuses' = r.statuses
             /\ upstream_page' = Some(p)
             /\ last_obs' = Some([at |-> utc_now, statuses |-> r.statuses])
    /\ before' = store
    /\ pass' = 1
    /\ observations' = observations + 1
    /\ UNCHANGED <<last_status, utc_now>>
    /\ UNCHANGED <<limitVars, queueVars, snapVars>>

\* the next request processes the same page again
HandlePageAgain ==
    /\ pass = 1
    /\ observations < MaxPasses
    /\ LET r == ProcessItems(store, upstream_page[1], utc_now)
       IN /\ store' = r.store
          /\ statuses' = r.statuses
    /\ before' = store
    /\ pass' = 2
    /\ observations' = observations + 1
    /\ UNCHANGED <<last_obs, last_status, utc_now, upstream_page>>
    /\ UNCHANGED <<limitVars, queueVars, snapVars>>

\* Utc::now advances
Tick ==
    /\ utc_now < MaxClock
    /\ utc_now' = utc_now + 1
    /\ UNCHANGED <<store, before, last_obs, last_status, observations,
                   upstream_page, pass, statuses>>
    /\ UNCHANGED <<limitVars, queueVars, snapVars>>

NextPages ==
    \/ HandlePage
    \/ HandlePageAgain
    \/ Tick

\* pages processed, some of them twice in a row, while time passes
SpecPages == InitStore /\ [][NextPages]_vars

\* issue 1 as upstream has it at version v: every edit bumps updated_at and
\* changes the title
SnapshotItem(v) ==
    IssueItem(1, 1, IF v % 2 = 1 THEN "a" ELSE "b", "Open", None, v, <<>>, <<>>)

\* the handler tasks update() has spawned, two at a time
Handlers == {1, 2}

\* upstream: issue 1 is edited
UpstreamEdit ==
    /\ upstream < MaxVersions
    /\ upstream' = upstream + 1
    /\ UNCHANGED <<store, before, last_obs, last_status, observations, utc_now,
                   upstream_page, pass, statuses, fetched, newest>>
    /\ UNCHANGED <<limitVars, queueVars>>

\* request!: handler h receives its page, which lists issue 1 as it is now
FetchSnapshot(h) ==
    /\ fetched[h] = None
    /\ observations + Cardinality({x \in Handlers : fetched[x] # None}) < MaxObservations
    /\ fetched' = [fetched EXCEPT ![h] = Some(SnapshotItem(upstream))]
    /\ UNCHANGED <<store, before, last_obs, last_status, observations, utc_now,
                   upstream_page, pass, statuses, upstream, newest>>
    /\ UNCHANGED <<limitVars, queueVars>>

\* iter!: handler h runs process_issue on the issue it fetched; the
\* transaction is atomic
CommitSnapshot(h) ==
    /\ fetched[h] # None
    /\ LET r == process_issue(store, fetched[h][1], utc_now)
       IN /\ store' = r.store
          /\ last_status' = r.status
    /\ last_obs' = fetched[h]
    /\ before' = store
    /\ observations' = observations + 1
    /\ newest' = Max(newest, fetched[h][1].updated_at)
    /\ fetched' = [fetched EXCEPT ![h] = None]
    /\ UNCHANGED <<utc_now, upstream_page, pass, statuses, upstream>>
    /\ UNCHANGED <<limitVars, queueVars>>

NextSnapshots ==
    \/ UpstreamEdit
    \/ \E h \in Handlers : FetchSnapshot(h)
    \/ \E h \in Handlers : CommitSnapshot(h)

\* two concurrent handlers observe an issue that upstream edits meanwhile
SpecSnapshots == InitStore /\ [][NextSnapshots]_vars

\* the requests update() hands to handlers, by kind of page they fetch
HandlerRequests ==
    [issue |-> {ListRequest("NewIssue", "acme/widget", 0, None),
                ListRequest("OldIssue", "acme/widget", 1, Some(1))},
     pr |-> {ListRequest("NewPr", "acme/widget", 0, None),
             ListRequest("OldPr", "acme/widget", 1, Some(1))},
     comment |-> {CommentsRequest("acme/widget", 1, None, 0, None),
                  CommentsRequest("acme/widget", 1, Some(1), 1, Some(1))}]

\* the items of the pages upstream answers those requests with
HandlerItems ==
    [issue |-> {IssueItem(n, 1, "a", "Open", None, at, <<>>, <<>>) :
                   n \in {1, 2}, at \in {1, 2}},
     pr |-> {PrItem(1, Some(1), Some(1), Some(at), None, <<>>, <<>>) : at \in {1, 2}},
     comment |-> {CommentItem(1, 1, at, 1) : at \in {None, Some(2)}}]

\* the pages: empty, one item, or two distinct items
HandlerPages ==
    [kind \in DOMAIN HandlerItems |->
        {<<>>}
        \cup {<<i>> : i \in {x \in HandlerItems[kind] : ItemKey(x) = 1}}
        \cup {p \in HandlerItems[kind] \X HandlerItems[kind] :
                 ItemKey(p[1]) < ItemKey(p[2])}]

\* process_issue, its last statement, for each item of an issue page: the
\* Comments requests add_comments_updated_req enqueues, in order
RECURSIVE CommentsUpdatedReqs(_, _)
CommentsUpdatedReqs(items, sts) ==
    IF items = <<>> THEN <<>>
    ELSE CommentsUpdatedReq(Head(sts), Head(items).repo,
                            Some(Head(items).updated_at), Head(items).number)
         \o CommentsUpdatedReqs(Tail(items), Tail(sts))

\* handle_request: the add_req calls of the handler of request r, in order,
\* when its page had the items `items`, classified sts, and the link `next`
HandlerEnqueues(r, items, sts, next) ==
    CASE r.name = "Comments" -> CommentsFollowUps(r, AnyUpdated(sts), next)
      [] r.name \in {"NewIssue", "OldIssue"} ->
            CommentsUpdatedReqs(items, sts) \o ListFollowUps(r, AnyUpdated(sts), next)
      [] r.name \in {"NewPr", "OldPr"} -> ListFollowUps(r, AnyUpdated(sts), next)

\* add_req, for each request of outs in order, no other task running
RECURSIVE AddRequests(_, _, _)
AddRequests(st, outs, born) ==
    IF outs = <<>> THEN st
    ELSE AddRequests(AddRequestNow(st, Head(outs).category, Head(outs).request, born),
                     Tail(outs), born)

\* handle_request(r), the fetch succeeding: the items are processed and the
\* follow-up requests enqueued
HandleRequest ==
    /\ observations < MaxRuns
    /\ \E kind \in DOMAIN HandlerRequests :
         \E r \in HandlerRequests[kind], p \in HandlerPages[kind] :
         \E next \in UpstreamNexts(r.page) :
            LET res == ProcessItems(store, p, utc_now)
                outs == HandlerEnqueues(r, p, res.statuses, next)
                st == AddRequests([queue |-> queue,
                                   counter |-> request_sequence_number,
                                   allocs |-> allocs, panicked |-> panicked],
                                  outs, epoch)
            IN /\ store' = res.store
               /\ statuses' = res.statuses
               /\ queue' = st.queue
               /\ request_sequence_number' = st.counter
               /\ allocs' = st.allocs
               /\ panicked' = st.panicked
               /\ last_obs' = Some([request |-> r, items |-> p, next |-> next,
                                    fetched |-> TRUE, allocs |-> allocs])
    /\ before' = store
    /\ observations' = observations + 1
    /\ UNCHANGED <<last_status, utc_now, upstream_page, pass>>
    /\ UNCHANGED <<repos, tasks, enqueues, epoch, handed_log, lost, fresh>>
    /\ UNCHANGED <<limitVars, snapVars>>

\* handle_request(r), the fetch failing: request! logs the error and returns
HandleRequestFails ==
    /\ observations < MaxRuns
    /\ \E kind \in DOMAIN HandlerRequests : \E r \in HandlerRequests[kind] :
          last_obs' = Some([request |-> r, items |-> <<>>, next |-> None,
                            fetched |-> FALSE, allocs |-> allocs])
    /\ statuses' = <<>>
    /\ before' = store
    /\ observations' = observations + 1
    /\ UNCHANGED <<store, last_status, utc_now, upstream_page, pass>>
    /\ UNCHANGED <<limitVars, queueVars, snapVars>>

NextHandlers ==
    \/ HandleRequest
    \/ HandleRequestFails

\* handlers run one after the other on the pages upstream sends
SpecHandlers == InitStore /\ [][NextHandlers]_vars


(***************************************************************************)
(* GithubDb::update: the refresh timer, the budgeter and the queue         *)
(***************************************************************************)
\* `interval(Duration::from_secs(60))`, in seconds
RefreshPeriod == 60

\* a timer that is always ready
TickAlways(delivered, t) == TRUE
\* refresh.poll_tick: the Interval's first tick is due when it is created, tick
\* k + 1 a period after tick k; a tick that was missed stays due
TickDue(delivered, t) == t >= delivered * RefreshPeriod

\* a loop that goes on one token into debt
WhileNotInDebt(count) == count + One > 0
\* `while *before_count >= 1.0`
WhileTokens(count) == count >= One

\* an update() that is not running
IdleUpdate ==
    [pc |-> "idle", i |-> 0, saved_up |-> 0, fired |-> FALSE, tokens |-> 0,
     attempts |-> 0, present |-> 0, deleted |-> 0]

\* a next_request that looks at the oldest row of the whole queue
DeleteOldestOfAll(q, c) ==
    IF q = {} THEN [queue |-> q, row |-> None]
    ELSE LET req == CHOOSE r \in q : \A o \in q : r.sequence_number <= o.sequence_number
         IN [queue |-> q \ {req}, row |-> Some(req)]
\* next_request: one iteration of its loop, the transaction that deletes the
\* row of category c with the least sequence number and returns its data
DeleteOldest(q, c) ==
    LET rows == {r \in q : r.category = c}
    IN IF rows = {} THEN [queue |-> q, row |-> None]
       ELSE LET req == CHOOSE r \in rows :
                          \A o \in rows : r.sequence_number <= o.sequence_number
            IN [queue |-> q \ {req}, row |-> Some(req)]

\* RequestLimits::update from the head of `for category in Priority::ALL` at
\* position i, with cl the category_limits, carry the local saved_up, t the
\* time: the tokens of each category accrue, and a category whose tokens are
\* below 1.0 is clamped and left at once.  The result is the update stopped
\* at the first call of next_request (pc "next"), or returned (pc "idle")
RECURSIVE LimitsAdvance(_, _, _, _, _)
LimitsAdvance(cl, i, carry, t, L) ==
    IF i > Len(ALL)
    THEN [pc |-> "idle", i |-> 0, category_limits |-> cl, tokens |-> 0,
          saved_up |-> FinalSavedUp(carry, L)]
    ELSE LET c == ALL[i]
             accrued == cl[c].count + NewRequestsAllowed(t - cl[c].time, L, c) + carry
             limit == CategoryCeiling(L, c)
         IN IF WhileTokens(accrued)
            THEN [pc |-> "next", i |-> i,
                  category_limits |-> [cl EXCEPT ![c] = [count |-> accrued, time |-> t]],
                  tokens |-> accrued, saved_up |-> 0]
            ELSE LimitsAdvance([cl EXCEPT ![c] = [count |-> ClampTokens(accrued, limit),
                                                  time |-> t]],
                               i + 1, IF accrued >= limit THEN accrued - limit ELSE 0,
                               t, L)

\* the while loop of category ALL[i] is left with cl: `if *before_count >=
\* limit { saved_up = *before_count - limit; *before_count = limit; }`, and
\* the update goes on with the next category
LimitsLeave(cl, i, t, L) ==
    LET c == ALL[i]
        left == cl[c].count
        limit == CategoryCeiling(L, c)
    IN LimitsAdvance([cl EXCEPT ![c].count = ClampTokens(left, limit)], i + 1,
                     IF left >= limit THEN left - limit ELSE 0, t, L)

\* upd when the update has reached the state adv.  It keeps, as history,
\* whether the timer fired in this update call and, at a call of next_request,
\* the tokens the category had after accrual, the calls made for it so far,
\* the rows the category holds as the call begins and the rows the call has
\* deleted
UpdateAt(adv, fired, attempts, q) ==
    IF adv.pc = "idle" THEN [IdleUpdate EXCEPT !.fired = fired]
    ELSE [IdleUpdate EXCEPT !.pc = "next", !.i = adv.i, !.fired = fired,
                            !.tokens = adv.tokens, !.attempts = attempts,
                            !.present = Cardinality({r \in q :
                                                        r.category = ALL[adv.i]})]

\* update(): the timer is polled once and, when a tick is due, refresh() runs;
\* then RequestLimits::update runs up to its first call of next_request
DbUpdateBegin ==
    /\ upd.pc = "idle"
    /\ ticks < MaxUpdates
    /\ ~panicked
    /\ LET due == TickDue(refresh, now)
           st0 == [queue |-> queue, counter |-> request_sequence_number,
                   allocs |-> allocs, panicked |-> panicked]
           st == IF due THEN AddRequests(st0, RefreshRequests(repos), epoch) ELSE st0
           adv == LimitsAdvance(category_limits, 1, saved_up, now, global_limit)
       IN /\ refresh' = IF due THEN refresh + 1 ELSE refresh
          /\ queue' = st.queue
          /\ request_sequence_number' = st.counter
          /\ allocs' = st.allocs
          /\ panicked' = st.panicked
          /\ category_limits' = adv.category_limits
          /\ saved_up' = IF adv.pc = "idle" THEN adv.saved_up ELSE saved_up
          /\ upd' = UpdateAt(adv, due, 1, st.queue)
    /\ ticks' = ticks + 1
    /\ fresh' = FALSE
    /\ UNCHANGED <<global_limit, now, saturated, dequeues, regular, last_tick>>
    /\ UNCHANGED <<repos, tasks, enqueues, epoch, handed_log, lost>>
    /\ UNCHANGED storeVars

\* next_request(c): one iteration of its loop.  No row: it returns None, the
\* closure returns false and the while loop breaks.  A row whose data does
\* not deserialize: the row is deleted and the loop goes on.  Otherwise the
\* row is deleted, its handler spawned and a token taken, and the while loop
\* goes on to its next call or is left
NextRequestIteration ==
    /\ upd.pc = "next"
    /\ LET c == ALL[upd.i]
           res == DeleteOldest(queue, c)
           taken == [category_limits EXCEPT ![c].count = @ - One]
           adv == IF WhileTokens(taken[c].count)
                  THEN [pc |-> "next", i |-> upd.i, category_limits |-> taken,
                        tokens |-> upd.tokens, saved_up |-> 0]
                  ELSE LimitsLeave(taken, upd.i, now, global_limit)
       IN /\ queue' = res.queue
          /\ IF res.row = None
             THEN /\ upd' = [upd EXCEPT !.pc = "clamp"]
                  /\ UNCHANGED <<tasks, handed_log, category_limits, dequeues, saved_up>>
             ELSE IF Deserializes(res.row[1])
             THEN /\ tasks' = tasks \cup {Task(res.row, "fetch", <<>>, None)}
                  /\ handed_log' = [handed_log EXCEPT
                                       ![c] = Append(handed_log[c], res.row[1].ord)]
                  /\ dequeues' = [dequeues EXCEPT ![c] = @ + 1]
                  /\ category_limits' = adv.category_limits
                  /\ saved_up' = IF adv.pc = "idle" THEN adv.saved_up ELSE saved_up
                  /\ upd' = UpdateAt(adv, upd.fired,
                                     IF adv.i = upd.i THEN upd.attempts + 1 ELSE 1,
                                     res.queue)
             ELSE /\ upd' = [upd EXCEPT !.deleted = @ + 1]
                  /\ UNCHANGED <<tasks, handed_log, category_limits, dequeues, saved_up>>
    /\ fresh' = FALSE
    /\ UNCHANGED <<global_limit, now, saturated, ticks, regular, last_tick, refresh>>
    /\ UNCHANGED <<repos, request_sequence_number, allocs, enqueues, epoch,
                   panicked, lost>>
    /\ UNCHANGED storeVars

\* the while loop has been broken: the tokens are clamped and the update goes
\* on with the next category
LimitsBreak ==
    /\ upd.pc = "clamp"
    /\ LET adv == LimitsLeave(category_limits, upd.i, now, global_limit)
       IN /\ category_limits' = adv.category_limits
          /\ saved_up' = IF adv.pc = "idle" THEN adv.saved_up ELSE saved_up
          /\ upd' = UpdateAt(adv, upd.fired, 1, queue)
    /\ UNCHANGED <<global_limit, now, saturated, dequeues, ticks, regular,
                   last_tick, refresh>>
    /\ UNCHANGED <<queueVars, storeVars>>

\* time passes between two update calls: a step of the model's clock when
\* the handlers of the last call have returned
TimePasses ==
    /\ upd.pc = "idle"
    /\ tasks = {}
    /\ ticks > 0
    /\ now < MaxWaits * TimeStep
    /\ now' = now + TimeStep
    /\ UNCHANGED <<global_limit, category_limits, saved_up, upd, saturated, dequeues,
                   ticks, regular, last_tick, refresh>>
    /\ UNCHANGED <<queueVars, storeVars>>

\* the requests the handler of request r enqueues: none when the fetch fails
\* (handle_request returns the error), else those of HandlerOutcomes, the
\* upstream serving every list in one page
SpawnedOutcomes(r) ==
    {<<>>} \cup
    (IF r.name = "Comments"
     THEN {CommentsFollowUps(r, u, None) : u \in BOOLEAN}
     ELSE IF r.name \in {"NewIssue", "OldIssue"}
     THEN {CommentsUpdatedReq(st, r.repo, Some(1), 1)
             \o ListFollowUps(r, st # "Unchanged", None) :
                 st \in {"New", "Updated", "Unchanged"}}
     ELSE {ListFollowUps(r, u, None) : u \in BOOLEAN})

\* a handler update() has spawned runs to its end: the upstream answers (or
\* fails), the items are processed, the follow-up requests are enqueued
HandlerRuns(t) ==
    /\ ~panicked
    /\ t.pc = "fetch"
    /\ \E out \in SpawnedOutcomes(t.req[1].data) :
          /\ enqueues + Len(out) <= MaxEnqueues
          /\ LET st == AddRequests([queue |-> queue,
                                    counter |-> request_sequence_number,
                                    allocs |-> allocs, panicked |-> panicked],
                                   out, epoch)
             IN /\ queue' = st.queue
                /\ request_sequence_number' = st.counter
                /\ allocs' = st.allocs
                /\ panicked' = st.panicked
          /\ enqueues' = enqueues + Len(out)
    /\ tasks' = tasks \ {t}
    /\ fresh' = FALSE
    /\ UNCHANGED <<repos, epoch, handed_log, lost>>
    /\ UNCHANGED <<limitVars, storeVars>>

\* the queues an earlier run left in the store: none, or one Comments row
\* that does not deserialize
UpdateLeftQueues ==
    {{[RequestRow(n, "Comments", LeftRequest("Comments", n), n, 0)
          EXCEPT !.ok = oks[n]] : n \in 1 .. Len(oks)} :
        oks \in {<<>>, <<FALSE>>}}

\* GithubDb::new, one repository: a fresh budgeter, a timer that has
\* delivered no tick, the queue after startup_requests
InitUpdate ==
    /\ global_limit = SmallLimit
    /\ saturated = FALSE
    /\ now = 0
    /\ category_limits = RequestLimitsNew(global_limit, now)
    /\ saved_up = 0
    /\ upd = IdleUpdate
    /\ dequeues = [c \in Priority |-> 0]
    /\ ticks = 0
    /\ regular = TRUE
    /\ last_tick = 0
    /\ refresh = 0
    /\ repos = <<"acme/widget">>
    /\ \E q \in UpdateLeftQueues :
          LET st == GithubDbNew(q, repos, Cardinality(q), 1)
          IN /\ queue = st.queue
             /\ request_sequence_number = st.counter
             /\ allocs = st.allocs
             /\ panicked = st.panicked
    /\ tasks = {}
    /\ enqueues = 0
    /\ epoch = 1
    /\ handed_log = [c \in Priority |-> <<>>]
    /\ lost = {}
    /\ fresh = TRUE
    /\ StoreAtRest

NextUpdate ==
    \/ DbUpdateBegin
    \/ NextRequestIteration
    \/ LimitsBreak
    \/ TimePasses
    \/ \E t \in tasks : HandlerRuns(t)

\* update() called again and again while the handlers it spawned run
SpecUpdate == InitUpdate /\ [][NextUpdate]_vars

(***************************************************************************)
(* update() called for ever: the budgeter against saturated queues         *)
(***************************************************************************)
\* the global limits the service is run with
StarveLimits == {1, 5, 10, 20, 50, 100}

\* the categories whose queues stay saturated: next_request always finds a row
\* for them, on top of the rows the queue holds
Saturated == {"Update", "Comments"}

\* next_request(c) called k times: the k oldest rows of category c leave the
\* queue, in the order of their sequence numbers
RECURSIVE DropOldest(_, _, _, _)
DropOldest(q, c, k, handed) ==
    LET res == DeleteOldest(q, c)
    IN IF k = 0 \/ res.row = None
       THEN [queue |-> q, handed |-> handed]
       ELSE DropOldest(res.queue, c, k - 1, Append(handed, res.row[1].ord))

\* RequestLimits::update from position i of `for category in Priority::ALL`,
\* `elapsed` seconds after the last update: the tokens accrue, the while loop
\* takes a token for every request next_request returns and breaks when the
\* category holds none, the tokens are clamped and what is over is carried on
RECURSIVE LimitsUpdate(_, _, _, _, _, _, _)
LimitsUpdate(cl, i, carry, elapsed, L, q, handed) ==
    IF i > Len(ALL)
    THEN [category_limits |-> cl, saved_up |-> FinalSavedUp(carry, L),
          queue |-> q, handed_log |-> handed]
    ELSE LET c == ALL[i]
             accrued == cl[c].count + NewRequestsAllowed(elapsed, L, c) + carry
             limit == CategoryCeiling(L, c)
             present == Cardinality({r \in q : r.category = c})
             k == IF c \in Saturated THEN MaxDequeues(accrued)
                  ELSE Min(MaxDequeues(accrued), present)
             left == accrued - k * One
             res == DropOldest(q, c, k, handed[c])
         IN LimitsUpdate([cl EXCEPT ![c] = [count |-> ClampTokens(left, limit),
                                            time |-> 0]],
                         i + 1, IF left >= limit THEN left - limit ELSE 0,
                         elapsed, L, res.queue,
                         [handed EXCEPT ![c] = res.handed])

\* time passes between two update calls; `now` is the time since the last
\* call (only `now.duration_since(*before_time)` enters the computation)
ClockAdvances ==
    /\ now < MaxGap * TimeStep
    /\ now' = now + TimeStep
    /\ UNCHANGED <<global_limit, category_limits, saved_up, upd, saturated, dequeues,
                   ticks, regular, last_tick, refresh>>
    /\ UNCHANGED <<queueVars, storeVars>>

\* update() called `now` seconds after the last call
ServiceUpdate ==
    /\ now > 0
    /\ LET res == LimitsUpdate(category_limits, 1, saved_up, now, global_limit,
                               queue, handed_log)
       IN /\ category_limits' = res.category_limits
          /\ saved_up' = res.saved_up
          /\ queue' = res.queue
          /\ handed_log' = res.handed_log
          /\ tasks' = tasks \cup {Task(<<row>>, "fetch", <<>>, None) :
                                    row \in queue \ res.queue}
    /\ now' = 0
    /\ fresh' = FALSE
    /\ UNCHANGED <<global_limit, upd, saturated, dequeues, ticks, regular, last_tick,
                   refresh>>
    /\ UNCHANGED <<repos, request_sequence_number, allocs, enqueues, epoch,
                   panicked, lost>>
    /\ UNCHANGED storeVars

\* GithubDb::new, one repository, any of the limits: the queue after
\* startup_requests, the other categories' queues saturated
InitStarve ==
    /\ global_limit \in StarveLimits
    /\ saturated = TRUE
    /\ now = 0
    /\ category_limits = RequestLimitsNew(global_limit, now)
    /\ saved_up = 0
    /\ upd = IdleUpdate
    /\ dequeues = [c \in Priority |-> 0]
    /\ ticks = 0
    /\ regular = TRUE
    /\ last_tick = 0
    /\ refresh = 0
    /\ repos = <<"acme/widget">>
    /\ LET st == GithubDbNew({}, repos, 0, 1)
       IN /\ queue = st.queue
          /\ request_sequence_number = st.counter
          /\ allocs = st.allocs
          /\ panicked = st.panicked
    /\ tasks = {}
    /\ enqueues = 0
    /\ epoch = 1
    /\ handed_log = [c \in Priority |-> <<>>]
    /\ lost = {}
    /\ fresh = TRUE
    /\ StoreAtRest

NextStarve == ClockAdvances \/ ServiceUpdate

\* an update call is possible whenever time has passed since the last one, and
\* it sets `now` back: weak fairness of the calls, written out
UpdateKeepsBeingCalled == []<>(now = 0) \/ []<><<ServiceUpdate>>_vars

\* update() keeps being called as time advances
SpecStarve ==
    InitStarve /\ [][NextStarve]_vars /\ WF_vars(ClockAdvances) /\ UpdateKeepsBeingCalled

(***************************************************************************)
(* The handlers against an upstream that never changes                     *)
(***************************************************************************)

\* the lists of an upstream repository, by kind: the pages of its issues, of
\* its pull requests and of the comments of issue 1, one item a page, in the
\* order the New traversals are sent them.  Pull request 3 is listed among
\* the issues too, with the same timestamps
SettleUpstreams ==
    LET issue1 == IssueItem(1, 1, "a", "Open", None, 1, <<"bug">>, <<2>>)
        issue3 == IssueItem(3, 1, "a", "Open", None, 1, <<>>, <<>>)
        pr3(created_at, updated_at) ==
            PrItem(3, Some(1), created_at, updated_at, None, <<>>, <<>>)
        pr4 == PrItem(4, None, Some(1), Some(1), None, <<>>, <<>>)
        comment1 == CommentItem(1, 1, None, 1)
        comment2 == CommentItem(2, 2, Some(2), 1)
    IN {[issue |-> << <<issue1>> >>,
         pr |-> << <<pr3(None, None)>> >>,
         comment |-> << <<comment1>> >>],
        [issue |-> << <<issue1>>, <<issue3>> >>,
         pr |-> << <<pr3(Some(1), None)>> >>,
         comment |-> << <<comment1>> >>],
        [issue |-> << <<issue1>> >>,
         pr |-> << <<pr4>>, <<pr3(Some(1), Some(1))>> >>,
         comment |-> << <<comment2>>, <<comment1>> >>]}

\* the list a request reads: Direction::Descending for the New traversals,
\* Direction::Ascending for the Old ones; the comments of the issue asked for
UpstreamList(up, r) ==
    CASE r.name = "Comments" -> IF r.issue_number = 1 THEN up.comment ELSE <<>>
      [] r.name = "NewIssue" -> up.issue
      [] r.name = "OldIssue" -> [i \in 1 .. Len(up.issue) |-> up.issue[Len(up.issue) + 1 - i]]
      [] r.name = "NewPr" -> up.pr
      [] r.name = "OldPr" -> [i \in 1 .. Len(up.pr) |-> up.pr[Len(up.pr) + 1 - i]]

\* request!: the items of the page the request asks for and the link to the
\* next page (page 0 and page 1 are both the first page upstream has)
UpstreamAnswer(up, r) ==
    LET pages == UpstreamList(up, r)
        n == IF r.url = None THEN 1 ELSE r.page + 1
    IN IF n <= Len(pages)
       THEN [items |-> pages[n], next |-> IF n < Len(pages) THEN Some(n) ELSE None]
       ELSE [items |-> <<>>, next |-> None]

\* a queued request; which of the queued requests of a category is handled
\* first plays no part here, and the rows carry no sequence number
SettleRow(c, r) == RequestRow(0, c, r, 0, 1)

SettleRows(outs) == {SettleRow(outs[i].category, outs[i].request) : i \in 1 .. Len(outs)}

\* update(): the refresh timer has fired and refresh() has run
SettleRefresh ==
    /\ queue' = queue \cup SettleRows(RefreshRequests(repos))
    /\ UNCHANGED <<repos, request_sequence_number, tasks, allocs, enqueues, epoch,
                   handed_log, panicked, lost, fresh>>
    /\ UNCHANGED <<limitVars, storeVars>>

\* update() dequeues a request of the given name and its handler runs: the
\* page is fetched, its items processed, the follow-up requests enqueued
\* (observations counts the handled requests modulo 2)
SettleHandle(name) ==
    /\ \E row \in queue :
          /\ row.name = name
          /\ LET ans == UpstreamAnswer(upstream_page, row.data)
                 res == ProcessItems(store, ans.items, utc_now)
                 outs == HandlerEnqueues(row.data, ans.items, res.statuses, ans.next)
             IN /\ store' = res.store
                /\ statuses' = res.statuses
                /\ queue' = (queue \ {row}) \cup SettleRows(outs)
                /\ last_obs' = Some([request |-> row.data, items |-> ans.items,
                                     next |-> ans.next, fetched |-> TRUE,
                                     outs |-> outs])
    /\ before' = store
    /\ observations' = (observations + 1) % 2
    /\ UNCHANGED <<last_status, utc_now, upstream_page, pass>>
    /\ UNCHANGED <<repos, request_sequence_number, tasks, allocs, enqueues, epoch,
                   handed_log, panicked, lost, fresh>>
    /\ UNCHANGED <<limitVars, snapVars>>

\* Utc::now advances.  The upserter compares the timestamps it stores for
\* equality only, and the clock is kept modulo MaxClock + 1
SettleTick ==
    /\ utc_now' = (utc_now + 1) % (MaxClock + 1)
    /\ UNCHANGED <<store, before, last_obs, last_status, observations,
                   upstream_page, pass, statuses>>
    /\ UNCHANGED <<limitVars, queueVars, snapVars>>

RequestNames == {"NewPr", "NewIssue", "OldPr", "OldIssue", "Comments"}

\* GithubDb::new on an empty store, one repository, any upstream
InitSettle ==
    /\ repos = <<"acme/widget">>
    /\ LET st == GithubDbNew({}, repos, 0, 1)
       IN /\ queue = {SettleRow(row.category, row.data) : row \in st.queue}
          /\ request_sequence_number = st.counter
          /\ allocs = st.allocs
          /\ panicked = st.panicked
    /\ tasks = {}
    /\ enqueues = 0
    /\ epoch = 1
    /\ handed_log = [c \in Priority |-> <<>>]
    /\ lost = {}
    /\ fresh = TRUE
    /\ LimitsAtRest
    /\ store = EmptyStore
    /\ before = EmptyStore
    /\ last_obs = None
    /\ last_status = "Unchanged"
    /\ observations = 0
    /\ utc_now = 0
    /\ upstream_page \in SettleUpstreams
    /\ pass = 0
    /\ statuses = <<>>
    /\ upstream = 1
    /\ fetched = <<None, None>>
    /\ newest = 0

NextSettle ==
    \/ SettleRefresh
    \/ \E name \in RequestNames : SettleHandle(name)
    \/ SettleTick

\* a request of the name is queued: SettleHandle(name) is enabled
Pending(name) == \E row \in queue : row.name = name

\* WF_vars(SettleHandle(name)), with ENABLED written out as Pending(name): a
\* name that stays queued is handled again and again
HandledFairly(name) == []<>(~Pending(name)) \/ []<><<SettleHandle(name)>>_vars

\* the program keeps running against an upstream that never changes: time
\* passes, update() keeps being called, the refresh timer keeps firing and
\* every kind of request keeps being dequeued and handled
SpecSettle ==
    /\ InitSettle
    /\ [][NextSettle]_vars
    /\ WF_vars(SettleRefresh)
    /\ WF_vars(SettleTick)
    /\ \A name \in RequestNames : HandledFairly(name)

(***************************************************************************)
(* Properties of the queue                                                 *)
(***************************************************************************)
\* the rows add_req has allocated a sequence number for and not yet inserted
PendingRows == {t.pending[1] : t \in {x \in tasks : x.pending # None}}

\* the rows handed to the handlers in flight
RowsInHandlers == {t.req[1] : t \in {x \in tasks : x.req # None}}

\* the ords of the rows handed out so far in category c
HandedOrds(c) == {handed_log[c][i] : i \in 1 .. Len(handed_log[c])}

\* C1: within each category the requests are handed out in the order they were
\* enqueued: the hand-outs of a category are in increasing order of enqueuing,
\* and no request waiting in the queue was enqueued before a request of its
\* category that has been handed out already.
C1_FifoPerCategory ==
    \A c \in Priority :
        /\ \A i, j \in 1 .. Len(handed_log[c]) :
              i < j => handed_log[c][i] < handed_log[c][j]
        /\ \A r \in queue :
              r.category = c => \A o \in HandedOrds(c) : o < r.ord

\* C2: of two rows whose sequence numbers were allocated in the same process
\* lifetime, the one allocated later has the strictly greater sequence number.
C2_SequenceMonotonic ==
    \A a, b \in queue \cup PendingRows \cup RowsInHandlers :
        (a.born = b.born /\ a.ord < b.ord) => a.sequence_number < b.sequence_number

\* two add_req calls of concurrent tasks have both allocated their sequence
\* number, and neither has inserted its row yet
C2_Witness ==
    \E a, b \in PendingRows : a.born = b.born /\ a.ord < b.ord

\* C3: at all times, restarts included, the rows of the queue have distinct
\* sequence numbers, no row waiting for its insert has the number of a row of
\* the queue, and no insert has failed on a duplicate sequence number.
C3_NoDuplicateSequence ==
    /\ ~panicked
    /\ \A a, b \in queue : a.sequence_number = b.sequence_number => a = b
    /\ \A p \in PendingRows : \A r \in queue : p.sequence_number # r.sequence_number

\* after a restart a row of the first lifetime is in the queue together with a
\* Comments request a handler of the second lifetime has inserted
C3_Witness ==
    /\ epoch = 2
    /\ \E a, b \in queue : a.born = 1 /\ b.born = 2 /\ b.name = "Comments"

\* C4: no request is handed out twice, and a request that has been handed out
\* is not in the queue any more.
C4_HandedOutOnce ==
    /\ \A c \in Priority :
          \A i, j \in 1 .. Len(handed_log[c]) :
              handed_log[c][i] = handed_log[c][j] => i = j
    /\ \A c, d \in Priority : c # d => HandedOrds(c) \cap HandedOrds(d) = {}
    /\ \A r \in queue : \A c \in Priority : r.ord \notin HandedOrds(c)
    /\ \A t, u \in tasks :
          (t.req # None /\ u.req # None /\ t.req[1].ord = u.req[1].ord) => t = u

\* two requests of category Update have been handed out, and a request of that
\* category still waits in the queue
C4_Witness ==
    /\ Len(handed_log["Update"]) >= 2
    /\ \E r \in queue : r.category = "Update"

\* the requests of category c that were in flight at the last crash
LostIn(c) == {r \in lost : r.category = c}

\* the queue holds a traversal `name` of repository repo
Traversal(name, repo) == \E r \in queue : r.name = name /\ r.data.repo = repo

\* C10: right after a restart that followed a crash, at most one request per
\* category was lost with the handlers in flight, and the queue holds an
\* OldPr, an OldIssue, a NewPr and a NewIssue traversal for every configured
\* repository.
C10_CrashRecovery ==
    (fresh /\ epoch > 1) =>
        /\ \A c \in Priority : Cardinality(LostIn(c)) <= 1
        /\ \A i \in 1 .. Len(repos) :
              \A name \in {"OldPr", "OldIssue", "NewPr", "NewIssue"} :
                  Traversal(name, repos[i])


(***************************************************************************)
(* Properties of the entity upserter                                       *)
(***************************************************************************)
\* the unique keys of the rows of a table of store s
KeysOf(s, table) ==
    CASE table = "User" -> s.User
      [] table = "Label" -> s.Label
      [] table = "IssuePullRequestShared" ->
            {r.number : r \in s.IssuePullRequestShared}
      [] table = "Issue" -> {r.shared : r \in s.Issue}
      [] table = "PullRequest" -> {r.shared : r \in s.PullRequest}
      [] table = "Comment" -> {r.comment_id : r \in s.Comment}
      [] table = "Assignment" -> {<<r.user, r.issue_or_pr>> : r \in s.Assignment}
      [] table = "LabelLink" -> {<<r.issue_or_pr, r.label>> : r \in s.LabelLink}

\* the last observation inserted a row into the table
InsertedInto(table) == KeysOf(store, table) \ KeysOf(before, table) # {}

\* the last observation found a Shared or a Comment row whose tracked
\* attribute, updated_timestamp, differed from the observed one
TrackedDiffered ==
    \/ \E b \in before.IssuePullRequestShared, a \in store.IssuePullRequestShared :
          a.number = b.number /\ a.updated_timestamp # b.updated_timestamp
    \/ \E b \in before.Comment, a \in store.Comment :
          a.comment_id = b.comment_id /\ a.updated_timestamp # b.updated_timestamp

Tables == {"User", "Label", "IssuePullRequestShared", "Issue", "PullRequest",
           "Comment", "Assignment", "LabelLink"}

\* the minimum of the per-row classifications when every inserted row is New
MinWithEveryInsertNew ==
    IF \E table \in Tables : InsertedInto(table) THEN "New"
    ELSE IF TrackedDiffered THEN "Updated"
    ELSE "Unchanged"

\* the minimum of the per-row classifications when an inserted User or Label
\* is Updated and an inserted LabelLink is not classified
MinWithUserAndLabelUpdated ==
    IF \E table \in Tables \ {"User", "Label", "LabelLink"} : InsertedInto(table)
    THEN "New"
    ELSE IF InsertedInto("User") \/ InsertedInto("Label") \/ TrackedDiffered
    THEN "Updated"
    ELSE "Unchanged"

\* C7 as stated: the classification an observation returns is the minimum,
\* under New < Updated < Unchanged, of the classifications of the rows it
\* touched, an inserted row of any table (User, Label, Shared, Issue,
\* PullRequest, Comment, Assignment, LabelLink) being New.
C7_EveryInsertIsNew ==
    last_obs # None => last_status = MinWithEveryInsertNew

\* C7: the classification an observation returns is the minimum, under
\* New < Updated < Unchanged, of the classifications of the rows it touched,
\* where an inserted Shared, Issue, PullRequest, Comment or Assignment row is
\* New, an inserted User or Label row is Updated, an inserted LabelLink row is
\* not classified, and an existing row is Updated exactly when its
\* updated_timestamp (Shared, Comment) differed.
C7_ClassificationMin ==
    last_obs # None => last_status = MinWithUserAndLabelUpdated

\* an observation of a known issue, with its timestamp as stored, brought a
\* user the store did not have, and inserted nothing else but label links
C7_Witness ==
    /\ last_obs # None
    /\ last_status = "Updated"
    /\ InsertedInto("User")
    /\ ~TrackedDiffered
    /\ \A table \in Tables \ {"User", "Label", "LabelLink"} : ~InsertedInto(table)

\* the members a store s links to the Shared row `shared` with outdated = 0
LinkedUsers(s, shared) ==
    {a.user : a \in {x \in s.Assignment : x.issue_or_pr = shared /\ x.outdated = 0}}

LinkedLabels(s, shared) ==
    {l.label : l \in {x \in s.LabelLink : x.issue_or_pr = shared /\ x.outdated = 0}}

\* the elements of a list
Elements(list) == {list[i] : i \in 1 .. Len(list)}

\* the last observation was processed: it is an issue, or a pull request that
\* has an author
Reconciled ==
    /\ last_obs # None
    /\ \/ last_obs[1].kind = "issue"
       \/ last_obs[1].kind = "pr" /\ last_obs[1].user # None

\* C8: after an issue or pull request S has been processed with assignees M
\* and labels L, the users linked to S with outdated = 0 are exactly M and S
\* has no other Assignment row, and the labels linked to S with outdated = 0
\* are exactly L, whatever links earlier observations left.
C8_Reconciliation ==
    Reconciled =>
        LET S == last_obs[1].number
        IN /\ LinkedUsers(store, S) = Elements(last_obs[1].assignees)
           /\ \A a \in store.Assignment : a.issue_or_pr = S => a.outdated = 0
           /\ LinkedLabels(store, S) = Elements(last_obs[1].labels)

\* issue 1 had the assignments {1, 2} and the label bug; the observation of
\* assignees {2, 3} and label docs has been processed
C8_Witness ==
    /\ Reconciled
    /\ last_obs[1].number = 1
    /\ LinkedUsers(before, 1) = {1, 2}
    /\ LinkedLabels(before, 1) = {"bug"}
    /\ last_obs[1].assignees = <<2, 3>>
    /\ last_obs[1].labels = <<"docs">>
    /\ {a \in store.Assignment : a.issue_or_pr = 1} =
          {[user |-> 2, issue_or_pr |-> 1, outdated |-> 0],
           [user |-> 3, issue_or_pr |-> 1, outdated |-> 0]}


\* a store with every outdated flag cleared
WithoutOutdated(s) ==
    [s EXCEPT !.Assignment = {[a EXCEPT !.outdated = 0] : a \in @},
              !.LabelLink = {[l EXCEPT !.outdated = 0] : l \in @}]

\* the requests a NewIssue / NewPr handler enqueues after a pass over the page
\* with the statuses sts
FollowUpsOfPass(items, sts) ==
    IF Head(items).kind = "comment" THEN {}
    ELSE {ListFollowUps(ListRequest("NewIssue", "acme/widget", 0, None),
                        AnyUpdated(sts), n) : n \in UpstreamNexts(0)}
         \cup (IF Head(items).kind = "issue"
               THEN {CommentsUpdatedReq(sts[i], items[i].repo,
                                        Some(items[i].updated_at), items[i].number) :
                        i \in 1 .. Len(items)}
               ELSE {})

\* the second pass classified every item Unchanged, changed nothing in the
\* store but outdated flags, and enqueued nothing
SecondPassIdle ==
    /\ \A i \in 1 .. Len(statuses) : statuses[i] = "Unchanged"
    /\ WithoutOutdated(store) = WithoutOutdated(before)
    /\ FollowUpsOfPass(upstream_page[1], statuses) \subseteq {<<>>}

\* the item carries the timestamps the upserter otherwise replaces by Utc::now
WithTimestamps(item) ==
    CASE item.kind = "issue" -> item.state = "Closed" => item.closed_at # None
      [] item.kind = "pr" -> item.created_at # None
      [] item.kind = "comment" -> TRUE

\* C9 as stated: when a page has been processed twice in a row, the second pass
\* classified every item Unchanged, changed nothing in the store other than
\* outdated flags, and enqueued no follow-up.
C9_SecondPassUnchanged == pass = 2 => SecondPassIdle

\* C9: when a page whose items all carry their timestamps (closed_at when
\* closed, created_at of a pull request) has been processed twice in a row, the
\* second pass classified every item Unchanged, changed nothing in the store
\* other than outdated flags, and enqueued no follow-up.
C9_IdempotentPage ==
    (pass = 2 /\ \A i \in 1 .. Len(upstream_page[1]) : WithTimestamps(upstream_page[1][i]))
        => SecondPassIdle

\* a page of two issues, one closed with its closed_at, one with an assignee,
\* both New on the first pass, has been processed again a second later
C9_Witness ==
    /\ pass = 2
    /\ Len(upstream_page[1]) = 2
    /\ \A i \in 1 .. 2 : /\ upstream_page[1][i].kind = "issue"
                         /\ WithTimestamps(upstream_page[1][i])
    /\ \E i \in 1 .. 2 : upstream_page[1][i].state = "Closed"
    /\ \E i \in 1 .. 2 : upstream_page[1][i].assignees # <<>>
    /\ last_obs[1].statuses = <<"New", "New">>
    /\ utc_now > last_obs[1].at


(***************************************************************************)
(* Properties of startup                                                   *)
(***************************************************************************)
\* the requests of the queue with their categories, without sequence numbers
QueuedRequests == {[category |-> r.category, request |-> r.data] : r \in queue}

\* C12: after GithubDb::new on an empty store with one configured repository
\* the queue holds exactly four rows: OldPr and OldIssue (page 0, no url) in
\* category Index, NewPr and NewIssue (page 0, no url) in category Update.
C12_ColdStart ==
    (fresh /\ epoch = 1 /\ Len(repos) = 1) =>
        /\ Cardinality(queue) = 4
        /\ QueuedRequests =
              {[category |-> "Index", request |-> ListRequest("OldPr", repos[1], 0, None)],
               [category |-> "Index", request |-> ListRequest("OldIssue", repos[1], 0, None)],
               [category |-> "Update", request |-> ListRequest("NewPr", repos[1], 0, None)],
               [category |-> "Update", request |-> ListRequest("NewIssue", repos[1], 0, None)]}

\* GithubDb::new has returned from its first start, for one repository, and
\* has allocated sequence numbers
C12_Witness == fresh /\ epoch = 1 /\ Len(repos) = 1 /\ allocs > 0

\* C13: right after any start, every configured repository has an OldPr and an
\* OldIssue request in the queue.
C13_StartupSeedsEveryRepo ==
    fresh => \A i \in 1 .. Len(repos) :
                Traversal("OldPr", repos[i]) /\ Traversal("OldIssue", repos[i])


(***************************************************************************)
(* Properties of concurrent observations                                   *)
(***************************************************************************)
\* C11: when the handlers that observed issue 1 have all committed, in whatever
\* order, the Shared row holds the attributes of the most recent snapshot any
\* of them committed: a handler with an older snapshot does not overwrite a
\* newer one.
C11_NewestSnapshotWins ==
    (newest > 0 /\ \A h \in Handlers : fetched[h] = None) =>
        \A r \in store.IssuePullRequestShared :
            r.number = 1 => /\ r.updated_timestamp = newest
                            /\ r.title = SnapshotItem(newest).title

(***************************************************************************)
(* Properties of the handlers' follow-up requests                          *)
(***************************************************************************)

\* the handler run the history records fetched its page
Fetched == last_obs # None /\ last_obs[1].fetched

\* the rows that run enqueued
Enqueued == {row \in queue : row.ord > last_obs[1].allocs}

\* the list requests among them
EnqueuedLists == {row \in Enqueued : row.name # "Comments"}

\* row continues the traversal of request r after a page whose link was next
Continues(row, r, next) ==
    /\ row.name = r.name
    /\ row.data.repo = r.repo
    /\ row.data.page = (IF next # None THEN r.page + 1 ELSE 0)
    /\ row.data.url = next

\* C14: a NewPr or NewIssue handler whose fetch succeeds enqueues exactly one
\* request of the same variant, at Update, when some item of the page was New
\* or Updated, and no list request when every item was Unchanged.
C14_NewFollowsChanges ==
    (Fetched /\ last_obs[1].request.name \in {"NewPr", "NewIssue"}) =>
        IF AnyUpdated(statuses)
        THEN /\ Cardinality(EnqueuedLists) = 1
             /\ \A row \in EnqueuedLists :
                   /\ row.category = "Update"
                   /\ Continues(row, last_obs[1].request, last_obs[1].next)
        ELSE EnqueuedLists = {}

C14_Witness ==
    /\ Fetched
    /\ last_obs[1].request.name = "NewIssue"
    /\ statuses = <<"Updated", "Unchanged">>
    /\ \E row \in EnqueuedLists : row.category = "Update" /\ row.name = "NewIssue"

\* C15: an OldPr or OldIssue handler whose fetch succeeds always enqueues
\* exactly one request of the same variant: at Update when some item of the
\* page was New or Updated, at Index otherwise.
C15_OldAlwaysFollows ==
    (Fetched /\ last_obs[1].request.name \in {"OldPr", "OldIssue"}) =>
        /\ Cardinality(EnqueuedLists) = 1
        /\ \A row \in EnqueuedLists :
              /\ row.category = (IF AnyUpdated(statuses) THEN "Update" ELSE "Index")
              /\ Continues(row, last_obs[1].request, last_obs[1].next)

C15_Witness ==
    /\ Fetched
    /\ last_obs[1].request.name = "OldPr"
    /\ statuses = <<"Unchanged">>
    /\ last_obs[1].next = None
    /\ \E row \in EnqueuedLists : row.category = "Index" /\ row.data.page = 0

\* the Comments requests the run enqueued for issue number n
EnqueuedComments(n) ==
    {row \in Enqueued : row.name = "Comments" /\ row.data.issue_number = n}

\* C16: for every issue of an issue list page: New gives exactly one Comments
\* request (page 0, no url, no since) at Comments; Updated gives exactly one
\* whose since is the issue's updated timestamp; Unchanged gives none.
C16_CommentsPerIssue ==
    (Fetched /\ last_obs[1].request.name \in {"NewIssue", "OldIssue"}) =>
        \A i \in 1 .. Len(statuses) :
            LET item == last_obs[1].items[i]
                cs == EnqueuedComments(item.number)
            IN IF statuses[i] = "Unchanged" THEN cs = {}
               ELSE /\ Cardinality(cs) = 1
                    /\ \A row \in cs :
                          /\ row.category = "Comments"
                          /\ row.data.repo = item.repo
                          /\ row.data.page = 0
                          /\ row.data.url = None
                          /\ row.data.since_timestamp =
                                (IF statuses[i] = "New" THEN None
                                 ELSE Some(item.updated_at))

C16_Witness ==
    /\ Fetched
    /\ last_obs[1].request.name = "OldIssue"
    /\ statuses = <<"Updated", "New">>
    /\ \E row \in EnqueuedComments(1) : row.data.since_timestamp = Some(2)
    /\ \E row \in EnqueuedComments(2) : row.data.since_timestamp = None

(***************************************************************************)
(* Properties of the stored lifecycle fields                               *)
(***************************************************************************)

\* the Shared rows of number n in store s
SharedOf(s, n) == {r \in s.IssuePullRequestShared : r.number = n}

\* the observation the history records had state Closed
ObservedClosed ==
    IF last_obs[1].kind = "issue" THEN last_obs[1].state = "Closed"
    ELSE last_obs[1].state = Some("Closed")

\* the history records an observation of a pull request without author
Skipped == last_obs # None /\ last_obs[1].kind = "pr" /\ last_obs[1].user = None

\* C17: after every processed observation of an issue or pull request, its
\* Shared row has a non-null closed_at_timestamp exactly if the observation
\* had state Closed (so a reopened item has null again), and the rows of the
\* other numbers are as they were; an item skipped for want of an author
\* changes no row.  Hence every row agrees with its latest observation.
C17_ClosedAtFollowsState ==
    /\ Reconciled =>
          /\ SharedOf(store, last_obs[1].number) # {}
          /\ \A r \in SharedOf(store, last_obs[1].number) :
                (r.closed_at_timestamp # None) <=> ObservedClosed
          /\ \A r \in store.IssuePullRequestShared :
                r.number # last_obs[1].number => r \in before.IssuePullRequestShared
    /\ Skipped => store.IssuePullRequestShared = before.IssuePullRequestShared

\* issue 1 was stored closed and has been observed open again
C17_Witness ==
    /\ Reconciled
    /\ last_obs[1].kind = "issue"
    /\ last_obs[1].state = "Open"
    /\ \E r \in SharedOf(before, 1) : r.closed_at_timestamp # None
    /\ \E r \in SharedOf(store, 1) : r.closed_at_timestamp = None
    /\ \E r \in SharedOf(store, 2) : r.closed_at_timestamp # None

\* the PullRequest rows of number n in store s
PullRequestOf(s, n) == {r \in s.PullRequest : r.shared = n}

\* C18: in every reachable state the fields merged_at_timestamp,
\* merge_commit_sha and merged_by of every PullRequest row are all null or all
\* non-null, whatever combination of them the payloads carried.
C18_MergedFieldsTogether ==
    \A r \in store.PullRequest :
        \/ r.merged_at_timestamp = None /\ r.merge_commit_sha = None /\ r.merged_by = None
        \/ r.merged_at_timestamp # None /\ r.merge_commit_sha # None /\ r.merged_by # None

\* C19: no Shared row has both an Issue row and a PullRequest row; a processed
\* pull request observation leaves a PullRequest row for its number, and an
\* observation of any other kind makes none, so that a PullRequest row exists
\* exactly for the numbers observed as pull requests.
C19_OneVariantPerShared ==
    /\ \A r \in store.IssuePullRequestShared :
          ~ ([shared |-> r.number] \in store.Issue /\ PullRequestOf(store, r.number) # {})
    /\ (Reconciled /\ last_obs[1].kind = "pr") =>
          PullRequestOf(store, last_obs[1].number) # {}
    /\ (last_obs # None /\ last_obs[1].kind # "pr") =>
          {r.shared : r \in store.PullRequest} = {r.shared : r \in before.PullRequest}

\* the user a payload names as the one who closed the item
PayloadClosedBy ==
    IF last_obs[1].kind = "issue" THEN last_obs[1].closed_by ELSE last_obs[1].merged_by

\* C20: when a processed observation of an existing row leaves out closed_by,
\* merged_at, merge_commit_sha or merged_by, the stored value stays as it was;
\* the merged fields and the head sha of a pull request, once set, stay set.
C20_AbsenceRetains ==
    Reconciled =>
        /\ \A b \in SharedOf(before, last_obs[1].number) :
           \A r \in SharedOf(store, last_obs[1].number) :
               (PayloadClosedBy = None /\ b.closed_by # None) => r.closed_by = b.closed_by
        /\ last_obs[1].kind = "pr" =>
              \A b \in PullRequestOf(before, last_obs[1].number) :
              \A r \in PullRequestOf(store, last_obs[1].number) :
                  /\ b.merged_at_timestamp # None =>
                        /\ r.merged_at_timestamp # None
                        /\ last_obs[1].merged_at = None =>
                              r.merged_at_timestamp = b.merged_at_timestamp
                  /\ b.merge_commit_sha # None =>
                        /\ r.merge_commit_sha # None
                        /\ last_obs[1].merge_commit_sha = None =>
                              r.merge_commit_sha = b.merge_commit_sha
                  /\ b.merged_by # None =>
                        /\ r.merged_by # None
                        /\ last_obs[1].merged_by = None => r.merged_by = b.merged_by
                  /\ b.head_sha # None => r.head_sha # None

(***************************************************************************)
(* Properties of the budgeter's tokens                                     *)
(***************************************************************************)

\* a tick has ended and none is under way
TickEnded == upd.pc = "idle" /\ ticks > 0

\* this step is one iteration of update()'s loop over the categories
CategoryStep == upd.pc = "loop" /\ upd'.pc = "loop" /\ upd'.i = upd.i + 1

\* the tokens of the category of this iteration before its dequeue loop
Accrued ==
    category_limits[ALL[upd.i]].count
      + NewRequestsAllowed(now - category_limits[ALL[upd.i]].time, global_limit,
                           ALL[upd.i])
      + upd.saved_up

\* the dequeues of this iteration
Dequeued == dequeues'[ALL[upd.i]] - dequeues[ALL[upd.i]]

\* C22: immediately after RequestLimits::new(limit), the token accumulator
\* update() reads for each category c is 0.2 * limit * share(c).
C22_InitialTokens ==
    (ticks = 0 /\ upd.pc = "idle") =>
        \A c \in Priority :
            category_limits[c].count = CategoryCeiling(global_limit, c)

\* C23: after every tick the saved_up carried into the next tick is at most
\* 0.2 * global_limit, and it is 0 when no category ended the tick above its
\* ceiling.
C23_SavedUpClamped ==
    TickEnded =>
        /\ saved_up <= SavedUpLimit(global_limit)
        /\ (\A c \in Priority :
               category_limits[c].count < CategoryCeiling(global_limit, c))
              => saved_up = 0

\* C24: at the end of every tick, and within a tick for the categories already
\* visited, a category's tokens are at most its ceiling
\* 0.2 * global_limit * share, however long it was idle and however much was
\* carried over into it.
C24_TokensAtMostCeiling ==
    /\ TickEnded =>
          \A c \in Priority :
              category_limits[c].count <= CategoryCeiling(global_limit, c)
    /\ upd.pc = "loop" =>
          \A j \in 1 .. (upd.i - 1) :
              category_limits[ALL[j]].count <= CategoryCeiling(global_limit, ALL[j])

\* a tick after an hour in which Update and Comments had nothing to dequeue:
\* Update's excess was carried into Comments, and both ended at their ceiling
C24_Witness ==
    /\ TickEnded
    /\ now >= LIMIT_DURATION
    /\ dequeues["Update"] = 0
    /\ dequeues["Comments"] = 0
    /\ category_limits["Update"].time = now
    /\ category_limits["Comments"].count = CategoryCeiling(global_limit, "Comments")
    /\ category_limits["Update"].count = CategoryCeiling(global_limit, "Update")

\* C25: in a tick a category dequeues only while its tokens are at least 1:
\* each of its k dequeues found at least 1 token and took exactly 1, and a
\* loop that ended on an empty queue left the other tokens as they were (they
\* are in the accumulator or in the excess handed on); no accumulator is ever
\* negative.
C25_TokenPerDequeue ==
    /\ [](\A c \in Priority : category_limits[c].count >= 0)
    /\ [][CategoryStep =>
            /\ Dequeued >= 0
            /\ Dequeued > 0 => Accrued - (Dequeued - 1) * One >= One
            /\ category_limits'[ALL[upd.i]].count + upd'.saved_up
                  = Accrued - Dequeued * One
            /\ \A c \in Priority : c # ALL[upd.i] => dequeues'[c] = dequeues[c]]_vars

\* Update's loop has ended on an empty queue after one dequeue, with at least
\* one token left over
C25_Witness ==
    /\ upd.pc = "loop"
    /\ upd.i = 2
    /\ dequeues["Update"] = 1
    /\ category_limits["Update"].count + upd.saved_up >= One

\* C26: a tick visits Update, Comments, Index in this order; the excess of a
\* category above its ceiling is added to the next category before its
\* dequeue loop, never to an earlier one; the excess left after Index is what
\* is stored in saved_up, and that is what Update gets on the next tick.
C26_CarryOverOrder ==
    /\ [](ALL = <<"Update", "Comments", "Index">>)
    /\ [][/\ CategoryStep =>
               /\ category_limits'[ALL[upd.i]].count + upd'.saved_up
                     = Accrued - Dequeued * One
               /\ upd'.saved_up =
                     Max(0, Accrued - Dequeued * One
                              - CategoryCeiling(global_limit, ALL[upd.i]))
               /\ \A c \in Priority :
                     c # ALL[upd.i] => category_limits'[c] = category_limits[c]
          /\ (upd.pc = "loop" /\ upd'.pc = "idle") => saved_up' = upd.saved_up
          /\ (upd.pc = "idle" /\ upd'.pc = "loop") => upd'.saved_up = saved_up]_vars

(***************************************************************************)
(* Properties of the label sweep                                           *)
(***************************************************************************)

\* C27: after an observation of Shared S with labels M has been processed, no
\* LabelLink row of S is left with outdated = 1: the links of S are the links
\* to the labels of M.
C27_StaleLabelLinksDeleted ==
    Reconciled =>
        \A l \in store.LabelLink :
            l.issue_or_pr = last_obs[1].number =>
                /\ l.outdated = 0
                /\ l.label \in Elements(last_obs[1].labels)

(***************************************************************************)
(* Properties of the dequeue of poisoned rows                              *)
(***************************************************************************)

\* C28: a dequeue of category c deletes the rows of c whose data does not
\* deserialize up to the oldest row that does, and hands out that row in the
\* same call; when no row of c deserializes it deletes them all and hands out
\* nothing.  A poisoned row never blocks the requests behind it.
C28_PoisonedRowsSkipped ==
    [][(queue' # queue /\ queue' \subseteq queue) =>
         \E c \in Priority :
            LET rows == {r \in queue : r.category = c}
                good == {r \in rows : r.ok}
            IN IF good = {}
               THEN /\ queue' = queue \ rows
                    /\ tasks' = tasks
                    /\ handed_log' = handed_log
               ELSE \E g \in good :
                      /\ \A o \in good : g.sequence_number <= o.sequence_number
                      /\ queue' = queue \ {r \in rows :
                                              r.sequence_number <= g.sequence_number}
                      /\ tasks' = tasks \cup {Task(Some(g), "fetch", <<>>, None)}
                      /\ handed_log' = [handed_log EXCEPT ![c] = Append(@, g.ord)]]_vars

\* the first dequeue of Comments has deleted the two poisoned rows the earlier
\* run left at the head and handed out the third, and the next has handed out
\* a row a handler enqueued behind them
C28_Witness ==
    /\ Len(handed_log["Comments"]) = 2
    /\ handed_log["Comments"][1] = 3
    /\ handed_log["Comments"][2] > 3
    /\ \A r \in queue : r.born # 0

(***************************************************************************)
(* Properties of the comments handler and of skipped items                 *)
(***************************************************************************)

\* C29: a Comments handler whose fetch succeeds enqueues exactly one Comments
\* request (same repo, issue_number and since_timestamp, page + 1, the url
\* returned) at Comments when some comment was not Unchanged and the page had
\* a next url, and nothing otherwise.
C29_CommentsNextPage ==
    (Fetched /\ last_obs[1].request.name = "Comments") =>
        IF AnyUpdated(statuses) /\ last_obs[1].next # None
        THEN /\ Cardinality(Enqueued) = 1
             /\ \A row \in Enqueued :
                   /\ row.category = "Comments"
                   /\ row.data = CommentsRequest(last_obs[1].request.repo,
                                                 last_obs[1].request.issue_number,
                                                 last_obs[1].request.since_timestamp,
                                                 last_obs[1].request.page + 1,
                                                 last_obs[1].next)
        ELSE Enqueued = {}

\* page 1 of the comments of issue 1 since 1 had a new comment and a next url
C29_Witness ==
    /\ Fetched
    /\ last_obs[1].request.name = "Comments"
    /\ last_obs[1].request.since_timestamp = Some(1)
    /\ AnyUpdated(statuses)
    /\ last_obs[1].next = Some(2)
    /\ \E row \in Enqueued : row.data.page = 2 /\ row.data.since_timestamp = Some(1)

\* the item is one the handlers skip when the store is s: a pull request
\* without author, a comment whose parent Shared is not in s
Skips(item, s) ==
    \/ item.kind = "pr" /\ item.user = None
    \/ item.kind = "comment" /\ SharedOf(s, item.issue_number) = {}

\* the entries of seq at the positions of the items that are not skipped
RECURSIVE Kept(_, _, _)
Kept(seq, items, s) ==
    IF items = <<>> THEN <<>>
    ELSE (IF Skips(Head(items), s) THEN <<>> ELSE <<Head(seq)>>)
         \o Kept(Tail(seq), Tail(items), s)

\* C30: a pull request without author and a comment whose parent Shared is
\* not in the store are skipped: the item is classified Unchanged and writes
\* no row, and the other items of the page are processed in order as if the
\* skipped ones were not on the page.
C30_SkippedItems ==
    (pass = 1 /\ upstream_page # None) =>
        LET p == upstream_page[1]
            r == ProcessItems(before, Kept(p, p, before), last_obs[1].at)
        IN /\ \A i \in 1 .. Len(p) : Skips(p[i], before) => statuses[i] = "Unchanged"
           /\ Len(statuses) = Len(p)
           /\ Kept(statuses, p, before) = r.statuses
           /\ store = r.store
           /\ (\A i \in 1 .. Len(p) : Skips(p[i], before)) => store = before

\* a page of pull request 1 without author and of pull request 2: the first
\* is skipped, the second stored
C30_Witness ==
    /\ pass = 1
    /\ upstream_page # None
    /\ Len(upstream_page[1]) = 2
    /\ upstream_page[1][1].kind = "pr"
    /\ upstream_page[1][1].user = None
    /\ statuses = <<"Unchanged", "New">>
    /\ SharedOf(store, 1) = {}
    /\ SharedOf(store, 2) # {}

(***************************************************************************)
(* Recovery of dropped requests                                            *)
(***************************************************************************)

\* a handler has dropped a request of variant name for repo
Dropped(name, repo) == \E r \in lost : r.name = name /\ r.data.repo = repo

\* the refresh timer of the model has no enqueue left to fire with
RefreshSpent ==
    \/ enqueues >= MaxEnqueues
    \/ ~RefreshRunning /\ enqueues + 2 * Len(repos) > MaxEnqueues

\* once a handler has dropped the OldPr or OldIssue request of the repo, no
\* request of that variant is in the queue ever again (an invariant of
\* SpecRecover: the behaviours that violate the recovery below do not depend
\* on where the model's bounds stop them)
DroppedOldNeverBack ==
    \A name \in {"OldPr", "OldIssue"} :
        Dropped(name, "acme/widget") => ~ Traversal(name, "acme/widget")

\* C21: after a handler has dropped an OldPr, OldIssue, NewPr or NewIssue
\* request for repo r on an upstream error, a request of the same variant for
\* r is eventually in the queue again while the process keeps ticking, without
\* a restart.  (For the variants refresh() enqueues, as long as the model's
\* refresh timer can still fire.)
C21_DroppedWorkRecovered ==
    /\ \A name \in {"OldPr", "OldIssue"} :
          Dropped(name, "acme/widget") ~> Traversal(name, "acme/widget")
    /\ \A name \in {"NewPr", "NewIssue"} :
          Dropped(name, "acme/widget") ~>
              (Traversal(name, "acme/widget") \/ RefreshSpent)

(***************************************************************************)
(* Page numbers of follow-ups; tracked and untracked attributes            *)
(***************************************************************************)

\* C31: every follow-up a list handler enqueues has page = page + 1 and the
\* returned url when upstream returned a next url, and page = 0 and no url
\* when it did not (a traversal that reached the last page starts over).
C31_FollowUpPage ==
    (Fetched /\ last_obs[1].request.name # "Comments") =>
        \A row \in EnqueuedLists :
            IF last_obs[1].next # None
            THEN /\ row.data.page = last_obs[1].request.page + 1
                 /\ row.data.url = last_obs[1].next
            ELSE /\ row.data.page = 0
                 /\ row.data.url = None

\* an OldIssue handler at page 1 got the last page: its follow-up is page 0;
\* before it a NewPr handler at page 0 got a next url: its follow-up is page 1
C31_Witness ==
    /\ Fetched
    /\ last_obs[1].request.name = "OldIssue"
    /\ last_obs[1].request.page = 1
    /\ last_obs[1].next = None
    /\ \E row \in EnqueuedLists : row.data.page = 0 /\ row.data.url = None
    /\ \E row \in queue : row.name = "NewPr" /\ row.data.page = 1 /\ row.data.url = Some(1)

\* the last observation found its row in the store: the Shared row of the
\* number (an issue, a pull request with author), the Comment row of the id
FoundStored ==
    /\ last_obs # None
    /\ IF last_obs[1].kind = "comment"
       THEN last_obs[1].id \in KeysOf(before, "Comment")
       ELSE Reconciled /\ SharedOf(before, last_obs[1].number) # {}

\* the last observation inserted no row that counts for the classification:
\* its users, labels, assignments and the Issue or PullRequest row all existed
MembersExisted == \A table \in Tables \ {"LabelLink"} : ~ InsertedInto(table)

\* the author and title the last observation carried are the stored ones
WrittenThrough ==
    CASE last_obs[1].kind = "comment" ->
            \A r \in store.Comment :
                r.comment_id = last_obs[1].id => r.author = last_obs[1].user
      [] last_obs[1].kind = "issue" ->
            \A r \in SharedOf(store, last_obs[1].number) :
                r.author = last_obs[1].user /\ r.title = last_obs[1].title
      [] last_obs[1].kind = "pr" ->
            \A r \in SharedOf(store, last_obs[1].number) :
                r.author = last_obs[1].user[1] /\ r.title = last_obs[1].title[1]

\* C32: an observation of a stored Shared or Comment whose members all exist
\* is classified Updated exactly when its updated timestamp differs from the
\* stored one, and Unchanged otherwise, whatever other attributes differ; the
\* differing attributes are written to the store all the same.
C32_OnlyTimestampTracked ==
    (FoundStored /\ MembersExisted) =>
        /\ last_status = (IF TrackedDiffered THEN "Updated" ELSE "Unchanged")
        /\ WrittenThrough

\* issue 1 was stored with title a and author 1; the observation with title b,
\* author 2 and the stored timestamp is Unchanged, and b and 2 are stored
C32_Witness ==
    /\ FoundStored
    /\ MembersExisted
    /\ last_obs[1].kind = "issue"
    /\ last_status = "Unchanged"
    /\ \E b \in SharedOf(before, 1) : b.title = "a" /\ b.author = 1
    /\ \E r \in SharedOf(store, 1) : r.title = "b" /\ r.author = 2

(***************************************************************************)
(* Review requests                                                         *)
(***************************************************************************)

\* the review requests stored for pull request n that are not outdated
ReviewRequestsOf(s, n) ==
    {[user |-> r.user, pr |-> r.pr] : r \in {x \in s.ReviewRequest :
                                               x.pr = n /\ x.outdated = 0}}

\* C34: after a pull request observation with requested reviewers R has been
\* processed, the ReviewRequest rows of that pull request with outdated = 0
\* are exactly the rows (u, pull request) for u in R.
C34_ReviewRequestsReconciled ==
    (Reconciled /\ last_obs[1].kind = "pr") =>
        ReviewRequestsOf(store, last_obs[1].number)
            = {[user |-> u, pr |-> last_obs[1].number] :
                  u \in Elements(last_obs[1].requested_reviewers)}

(***************************************************************************)
(* The same number in two repositories                                     *)
(***************************************************************************)

\* C38: the items of one number are stored in a single Shared row whatever
\* repository they were observed from: an observation of a stored number
\* inserts no Shared row, the row keeps the repository of its first
\* observation, and its other attributes are those of the last observation.
C38_OneSharedPerNumber ==
    /\ \A r1, r2 \in store.IssuePullRequestShared :
          r1.number = r2.number => r1 = r2
    /\ (Reconciled /\ SharedOf(before, last_obs[1].number) # {}) =>
          /\ Cardinality(store.IssuePullRequestShared)
                = Cardinality(before.IssuePullRequestShared)
          /\ \A b \in SharedOf(before, last_obs[1].number) :
                \A r \in SharedOf(store, last_obs[1].number) : r.repo = b.repo
          /\ WrittenThrough

\* issue 1 was stored from acme/widget with title a; the observation of
\* issue 1 of acme/gadget with title b is written to that row
C38_Witness ==
    /\ Reconciled
    /\ last_obs[1].repo = "acme/gadget"
    /\ \E b \in SharedOf(before, 1) : b.repo = "acme/widget" /\ b.title = "a"
    /\ \E r \in SharedOf(store, 1) :
          r.repo = "acme/widget" /\ r.title = "b" /\ r.author = 2

(***************************************************************************)
(* One Old traversal per repository                                        *)
(***************************************************************************)

\* the requests of a name that are queued or in the hands of a handler
InProgress(name) ==
    Cardinality({row \in queue : row.name = name})
      + Cardinality({t \in tasks : t.req # None /\ t.req[1].name = name})

\* C37: with one configured repository, in every reachable state (handlers
\* completing, upstream errors, crashes and restarts included) at most one
\* OldPr request and at most one OldIssue request is queued or being handled.
C37_OneOldChain ==
    Len(repos) = 1 => InProgress("OldPr") <= 1 /\ InProgress("OldIssue") <= 1

\* after a crash and restart an OldPr handler has put its follow-up in the queue
C37_Witness ==
    /\ Len(repos) = 1
    /\ epoch > 1
    /\ ~fresh
    /\ \E row \in queue : row.name = "OldPr" /\ row.data.page = 1 /\ row.born = epoch
    /\ InProgress("OldPr") = 1

(***************************************************************************)
(* Page-chasing against an upstream that never changes                     *)
(***************************************************************************)

\* the last handled request chased nothing: a NewPr, NewIssue or Comments
\* request enqueued no follow-up, an OldPr or OldIssue request enqueued its
\* one follow-up in category Index and nothing else
Settled ==
    last_obs # None =>
        IF last_obs[1].request.name \in {"OldPr", "OldIssue"}
        THEN /\ Len(last_obs[1].outs) = 1
             /\ last_obs[1].outs[1].category = "Index"
             /\ last_obs[1].outs[1].request.name = last_obs[1].request.name
        ELSE last_obs[1].outs = <<>>

\* every pull request upstream lists carries created_at or updated_at
PrsTimestamped ==
    \A i \in 1 .. Len(upstream_page.pr) : \A j \in 1 .. Len(upstream_page.pr[i]) :
        \/ upstream_page.pr[i][j].created_at # None
        \/ upstream_page.pr[i][j].updated_at # None

C33_RefreshOncePerCall ==
    [][ticks' = ticks + 1 =>
          /\ queue \subseteq queue'
          /\ IF now >= refresh * RefreshPeriod
             THEN /\ refresh' = refresh + 1
                  /\ Cardinality(queue' \ queue) = 2 * Len(repos)
                  /\ \A i \in 1 .. Len(repos) : \A name \in {"NewPr", "NewIssue"} :
                        \E row \in queue' \ queue :
                           /\ row.category = "Update"
                           /\ row.data = ListRequest(name, repos[i], 0, None)
             ELSE /\ refresh' = refresh
                  /\ queue' = queue]_vars

\* twenty periods after the first tick the second update() call has fired the
\* timer once: nineteen ticks are still due and two rows were enqueued
C33_Witness ==
    /\ ticks = 2
    /\ upd.fired
    /\ refresh = 2
    /\ now >= (refresh + 1) * RefreshPeriod

\* the running update() is inside the while loop of a category
InLoop == upd.pc \in {"next", "clamp"}

\* the step is an iteration of the running next_request call
Iterates == upd.pc = "next" /\ upd' # upd

\* C35 as stated: in one tick the calls of next_request for a category are at
\* most its tokens after accrual plus one, whatever the handlers enqueue
\* meanwhile, and a call of next_request deletes at most the rows the category
\* held when the call began.
C35_TickTerminates ==
    /\ [](InLoop => upd.attempts * One <= upd.tokens + One)
    /\ [][(Iterates /\ queue' # queue) => upd.deleted + 1 <= upd.present]_vars

\* C35: in one tick the calls of next_request for a category are at most its
\* tokens after accrual plus one, whatever the handlers enqueue meanwhile, and
\* a call of next_request deletes at most the rows the category held when the
\* call began and one more, a row enqueued during the call, which it returns.
C35_TickTerminatesPlusOne ==
    /\ [](InLoop => upd.attempts * One <= upd.tokens + One)
    /\ [][(Iterates /\ queue' # queue) =>
             /\ upd.deleted + 1 <= upd.present + 1
             /\ upd.deleted + 1 > upd.present => upd'.deleted = 0]_vars

\* a call of next_request has deleted every row its category held when it
\* began, none of which deserialized, and a handler has enqueued another
C35_Witness ==
    /\ upd.pc = "next"
    /\ upd.present > 0
    /\ upd.deleted = upd.present
    /\ \E row \in queue : row.category = ALL[upd.i] /\ row.born = 1

\* C36: a dequeue from category c removes only rows of category c and leaves
\* the rows of the other categories and the entity tables as they are; when c
\* holds no row it returns none and leaves the whole queue, the tokens of c
\* and the sequence counter as they are.
C36_DequeueFrame ==
    [][Iterates =>
          /\ queue' \subseteq queue
          /\ \A row \in queue \ queue' : row.category = ALL[upd.i]
          /\ store' = store
          /\ ({row \in queue : row.category = ALL[upd.i]} = {} =>
                /\ queue' = queue
                /\ tasks' = tasks
                /\ category_limits'[ALL[upd.i]].count = category_limits[ALL[upd.i]].count
                /\ request_sequence_number' = request_sequence_number)]_vars

\* a dequeue found its category empty while the other categories hold rows,
\* after dequeues of this update() call have removed rows
C36_Witness ==
    /\ upd.pc = "clamp"
    /\ \A row \in queue : row.category # ALL[upd.i]
    /\ queue # {}
    /\ tasks # {}

\* the request that got the n-th sequence number is in the queue
InQueue(n) == \E row \in queue : row.ord = n

\* C39: for any global_limit >= 1, if update() keeps being called as time
\* advances, every request that was enqueued in any category is eventually
\* dequeued, even when the other categories' queues stay saturated
C39_NoStarvation == \A n \in 1 .. 4 : InQueue(n) ~> ~InQueue(n)

====
